---- MODULE Spec2Model ----
(***************************************************************************)
(* Model of the iteration-mcp server (src/src/index.ts, src/src/api.ts,    *)
(* the CacheManager and the ConfigManager): the multi-step collection      *)
(* workflow kept in sessionData, the credential lookup of getAPIManager,   *)
(* and the two-phase submission of APIManager.submitCompleteIteration.     *)
(*                                                                         *)
(* JavaScript values are modelled with one fixed shape per kind, so that   *)
(* any two values of a kind can be compared:                               *)
(*   - an optional value (undefined or v) is the sequence <<>> or <<v>>;   *)
(*   - a string the code inspects character by character (projectLine,     *)
(*     an id printed by toString) is a sequence of one-character strings;  *)
(*   - a JSON value that the code tests for truthiness and then uses as    *)
(*     an array (the module lists) is a record [t, v] with t its JSON      *)
(*     type and v its elements.                                            *)
(***************************************************************************)
EXTENDS Integers, Sequences, FiniteSets

\* ------------------------------------------------------------------ bounds

\* Number of iterations the remote service creates in one run.
MaxCreated == 2

\* The id the remote service gives to the first iteration it creates; later
\* ones get the following ids (two digits are reached after the first).
FirstServerId == 9

\* ------------------------------------------------------- optional values

None == <<>>

Some(v) == <<v>>

IsSome(o) == Len(o) > 0

\* ---------------------------------------------------------------- strings

Digits == <<"0", "1", "2", "3", "4", "5", "6", "7", "8", "9">>

IsDigit(c) == \E i \in 1..10 : Digits[i] = c

DigitVal(c) == (CHOOSE i \in 1..10 : Digits[i] = c) - 1

\* Number.prototype.toString for a non-negative integer.
RECURSIVE toString(_)
toString(n) ==
  IF n < 10 THEN <<Digits[n + 1]>>
  ELSE toString(n \div 10) \o <<Digits[(n % 10) + 1]>>

\* The value of the longest prefix of digits of s, given the value acc of the
\* digits read so far.
RECURSIVE DigitPrefix(_, _)
DigitPrefix(s, acc) ==
  IF s = <<>> \/ ~IsDigit(Head(s)) THEN acc
  ELSE DigitPrefix(Tail(s), acc * 10 + DigitVal(Head(s)))

RECURSIVE SkipSpaces(_)
SkipSpaces(s) ==
  IF s # <<>> /\ Head(s) = " " THEN SkipSpaces(Tail(s)) ELSE s

\* parseInt(s): leading blanks are skipped, an optional sign is read, then the
\* longest prefix of decimal digits; NaN (None) when there is no digit.
parseInt(s) ==
  LET t    == SkipSpaces(s)
      neg  == t # <<>> /\ Head(t) = "-"
      body == IF t # <<>> /\ Head(t) \in {"-", "+"} THEN Tail(t) ELSE t
  IN  IF body = <<>> \/ ~IsDigit(Head(body)) THEN None
      ELSE Some(IF neg THEN 0 - DigitPrefix(body, 0) ELSE DigitPrefix(body, 0))

\* The lower-case letter of an upper-case letter of the names in use.
Lower(c) == IF c = "G" THEN "g" ELSE IF c = "C" THEN "c" ELSE c

\* An includes that ignores the case of the letters.
IncludesFolded(s, sub) ==
  \E i \in 0..(Len(s) - Len(sub)) :
    \A k \in 1..Len(sub) : Lower(s[i + k]) = Lower(sub[k])

\* String.prototype.includes
Includes(s, sub) ==
  \E i \in 0..(Len(s) - Len(sub)) :
    \A k \in 1..Len(sub) : s[i + k] = sub[k]

\* ------------------------------------------------------------ JSON values

JAbsent == [t |-> "absent", v |-> <<>>]

JNull == [t |-> "null", v |-> <<>>]

JObject == [t |-> "object", v |-> <<>>]

JList(s) == [t |-> "list", v |-> s]

\* !x of JavaScript for such a value: undefined and null are falsy, every
\* array (the empty one included) is truthy.
JFalsy(x) == x.t \in {"absent", "null"}

\* !x for an optional string given as a sequence of characters.
FalsyChars(o) == ~IsSome(o) \/ o[1] = <<>>

\* !x for an optional opaque string.
FalsyStr(o) == ~IsSome(o) \/ o[1] = ""

\* The object JSON.parse returns for the `data` argument of a step: every
\* field a handler reads, absent unless the caller gave it.
NoPayload ==
  [projectLine |-> None, iterationName |-> None, onlineTime |-> None,
   gitProjectUrl |-> None, gitProjectName |-> None, developmentBranch |-> None,
   participants |-> None, reviewers |-> None,
   componentModules |-> JAbsent, functionModules |-> JAbsent]

\* The `data` argument: a text that JSON.parse accepts (json) and the object
\* it yields, or a text it rejects.
BadJson == [json |-> FALSE, obj |-> NoPayload]

Json(o) == [json |-> TRUE, obj |-> o]

\* ------------------------------------------------------------------ state

VARIABLES
  sessionData,   \* index.ts:112 the Session: basicInfo, projectInfo, modules
  sessionToken,  \* index.ts:93  token of the DingTalk login, if any
  apiManager,    \* index.ts:99  the cached APIManager: the token it was built with
  fullConfig,    \* config-manager.ts:14 whether the configuration file is loaded
  envToken,      \* process.env.ITERATION_MCP_TOKEN
  configFile,    \* the mcp-config.json the ConfigManager finds, if any
  cache,         \* the cache file of the CacheManager
  nextId,        \* the id the remote service gives to the next iteration
  inflight,      \* a submit_complete_iteration call awaiting its remote calls
  resolution,    \* api.ts:150 a project line, a project list and what the
                 \* matching of the one against the other has yielded
  workspace,     \* index.ts:771 the working directory as git and the file
                 \* system show it: what each command and file read yields
  snapshot,      \* git-utils.ts:50 what GitUtils.getGitInfo has returned
  last           \* the last tool call that returned: its arguments, its
                 \* response and the calls it made

vars == <<sessionData, sessionToken, apiManager, fullConfig, envToken,
          configFile, cache, nextId, inflight, resolution, workspace,
          snapshot, last>>

\* index.ts:116 and 666: sessionData = {}
EmptySession == [basicInfo |-> None, projectInfo |-> None, modules |-> None]

\* ----------------------------------------------------------------- cache

\* getDefaultCache: the content of a cache that has no file yet.
DefaultCache ==
  [projectLines |-> <<>>, defaultProjectLine |-> None,
   recentParticipants |-> <<>>, recentReviewers |-> <<>>]

\* Array.prototype.filter(id => !ids.includes(id))
RECURSIVE Without(_, _)
Without(s, ids) ==
  IF s = <<>> THEN <<>>
  ELSE IF \E i \in 1..Len(ids) : ids[i] = Head(s) THEN Without(Tail(s), ids)
  ELSE <<Head(s)>> \o Without(Tail(s), ids)

\* Array.prototype.slice(0, n)
Slice(s, n) == IF Len(s) <= n THEN s ELSE SubSeq(s, 1, n)

\* The number of recently used ids the cache keeps.
RecentLimit == 5

\* saveCache: the write of the cache file fails silently (written = FALSE)
\* and the file keeps its content.
saveCache(old, new, written) == IF written THEN new ELSE old

\* An updateRecentPersonnel that does not filter the ids it is given out of
\* the ids it keeps.
updateRecentPersonnelUnfiltered(c, participantIds, reviewerIds, written) ==
  saveCache(c,
    [c EXCEPT
       !.recentParticipants =
          Slice(participantIds \o c.recentParticipants, RecentLimit),
       !.recentReviewers =
          Slice(reviewerIds \o c.recentReviewers, RecentLimit)],
    written)

\* CacheManager.updateRecentPersonnel
updateRecentPersonnel(c, participantIds, reviewerIds, written) ==
  saveCache(c,
    [c EXCEPT
       !.recentParticipants =
          Slice(participantIds \o Without(c.recentParticipants, participantIds),
                RecentLimit),
       !.recentReviewers =
          Slice(reviewerIds \o Without(c.recentReviewers, reviewerIds),
                RecentLimit)],
    written)

\* CacheManager.updateProjectLine
updateProjectLine(c, projectLine, written) ==
  saveCache(c,
    [c EXCEPT
       !.projectLines =
          IF \E i \in 1..Len(c.projectLines) : c.projectLines[i] = projectLine
          THEN c.projectLines
          ELSE Append(c.projectLines, projectLine),
       !.defaultProjectLine = Some(projectLine)],
    written)

\* ----------------------------------------------------------- credentials

\* The token an mcp-config.json with a valid auth.Authorization entry holds.
ConfigToken == "Tcfg"

\* ConfigManager.getFullConfig: the loaded configuration is kept; otherwise
\* the file is searched, read and parsed, which fails when there is no file
\* ("none": the error of getNoConfigFoundError) or when it is not JSON ("bad").
getFullConfig(fc, file) ==
  IF IsSome(fc) THEN [ok |-> TRUE, err |-> "", fullConfig |-> fc]
  ELSE IF file = "none" THEN [ok |-> FALSE, err |-> "no_config_file", fullConfig |-> fc]
  ELSE IF file = "bad" THEN [ok |-> FALSE, err |-> "config_unreadable", fullConfig |-> fc]
  ELSE [ok |-> TRUE, err |-> "", fullConfig |-> Some(file)]

\* ConfigManager.getToken: the environment variable first, then the
\* auth.Authorization entry of the configuration file ("auth": it is there
\* and starts with "Bearer "; "noauth": a configuration without it).
getToken(env, fc, file) ==
  IF IsSome(env) /\ env[1] # ""
  THEN [ok |-> TRUE, err |-> "", token |-> env[1], fullConfig |-> fc]
  ELSE LET c == getFullConfig(fc, file)
       IN  IF ~c.ok
           THEN [ok |-> FALSE, err |-> c.err, token |-> "", fullConfig |-> c.fullConfig]
           ELSE IF c.fullConfig[1] = "auth"
           THEN [ok |-> TRUE, err |-> "", token |-> ConfigToken,
                 fullConfig |-> c.fullConfig]
           ELSE [ok |-> FALSE, err |-> "no_token", token |-> "",
                 fullConfig |-> c.fullConfig]

\* ConfigManager.getBaseUrl: api.baseUrl of the configuration, or the
\* fallback URL when the entry is missing; fails when no configuration loads.
getBaseUrl(fc, file) == getFullConfig(fc, file)

\* An API manager that is built without a token when none is found.
getAPIManagerAnonymous(am, st, env, fc, file) ==
  IF IsSome(am) /\ IsSome(st)
  THEN [ok |-> TRUE, err |-> "", apiManager |-> am, fullConfig |-> fc]
  ELSE LET t == IF IsSome(st)
                THEN [ok |-> TRUE, err |-> "", token |-> st[1], fullConfig |-> fc]
                ELSE getToken(env, fc, file)
       IN  [ok |-> TRUE, err |-> "", apiManager |-> Some(t.token),
            fullConfig |-> t.fullConfig]

\* IterationMCPServer.getAPIManager: the cached manager when there is one and
\* a session token is set; otherwise a new one, built with the session token
\* or else the token of the ConfigManager, once the base URL is known. The
\* error of the token lookup or of the base URL is thrown on.
getAPIManager(am, st, env, fc, file) ==
  IF IsSome(am) /\ IsSome(st)
  THEN [ok |-> TRUE, err |-> "", apiManager |-> am, fullConfig |-> fc]
  ELSE LET t  == IF IsSome(st)
                 THEN [ok |-> TRUE, err |-> "", token |-> st[1], fullConfig |-> fc]
                 ELSE getToken(env, fc, file)
           b  == getBaseUrl(t.fullConfig, file)
       IN  IF ~t.ok
           THEN [ok |-> FALSE, err |-> t.err, apiManager |-> am,
                 fullConfig |-> t.fullConfig]
           ELSE IF ~b.ok
           THEN [ok |-> FALSE, err |-> b.err, apiManager |-> am,
                 fullConfig |-> b.fullConfig]
           ELSE [ok |-> TRUE, err |-> "", apiManager |-> Some(t.token),
                 fullConfig |-> b.fullConfig]

\* ----------------------------------------------------------- git metadata

\* The hours of a day: the ages of the commits are given in hours.
HoursPerDay == 24

\* The estimate when nothing can be computed.
DefaultWorkDays == 7

\* The largest estimate handleBasicInfo gives from the age of a commit.
MaxWorkDays == 30

\* The commits of the last 30 days that count as one day of work.
CommitsPerDay == 3

\* The smallest estimate handleBasicInfo gives from the number of commits.
MinCommitDays == 3

Min(a, b) == IF a < b THEN a ELSE b

Max(a, b) == IF a > b THEN a ELSE b

\* Math.ceil(a / b) for an integer a and a positive integer b.
Ceil(a, b) == 0 - ((0 - a) \div b)

\* Math.ceil((now - date) / (1000 * 60 * 60 * 24)) for a date that lies the
\* given number of hours back.
diffDays(hours) == Ceil(hours, HoursPerDay)

\* What a working directory yields: whether it exists and is a git
\* repository; the output of `git branch --show-current` (None: the command
\* fails, "": a detached HEAD); whether `pwd` runs; the file that gives the
\* project ("json": git_info.config.json, "kv": iteration-mcp.config, "none");
\* whether there is a remote named origin; the age in hours of the
\* merge-base with the main line and of the first commit (None: the command
\* fails or prints nothing) and the number of commits of the last 30 days
\* (None: the command fails).
Workspace(exists, repo, branch, pwd, config, remote, mergeBase, firstCommit, commits) ==
  [exists |-> exists, repo |-> repo, branch |-> branch, pwd |-> pwd,
   config |-> config, remote |-> remote, mergeBase |-> mergeBase,
   firstCommit |-> firstCommit, commits |-> commits]

\* The url and the name a configuration file gives, those derived from the
\* url of the remote, and the name derived from the directory.
ConfigUrl == "https://git.example.com/team/from-config"

ConfigName == "from-config"

RemoteUrl == "https://git.example.com/team/from-remote.git"

RemoteName == "from-remote"

DirectoryName == "My Project"

\* A GitInfo without any field.
NoGitInfo ==
  [projectUrl |-> None, projectName |-> None, currentBranch |-> None,
   estimatedWorkDays |-> None]

\* A main-line branch: the test of the two estimates, which an empty branch
\* name (a detached HEAD) passes as well.
MainLine(branch) == branch \in {"", "main", "master"}

\* handleBasicInfo, the estimate (index.ts 829-885): on a feature branch the
\* age of the merge-base, else the age of the first commit of the branch,
\* both kept between 1 and 30, else the commits of the last 30 days; on the
\* main line the commits of the last 30 days only; 7 when a command outside
\* the inner try blocks fails.
workDays(w) ==
  IF ~IsSome(w.branch) THEN DefaultWorkDays
  ELSE IF ~MainLine(w.branch[1])
  THEN IF IsSome(w.mergeBase)
       THEN Min(Max(diffDays(w.mergeBase[1]), 1), MaxWorkDays)
       ELSE IF IsSome(w.firstCommit)
       THEN Min(Max(diffDays(w.firstCommit[1]), 1), MaxWorkDays)
       ELSE IF ~IsSome(w.commits) THEN DefaultWorkDays
       ELSE Max(Ceil(w.commits[1], CommitsPerDay), MinCommitDays)
  ELSE IF ~IsSome(w.commits) THEN DefaultWorkDays
       ELSE IF w.commits[1] > 0
       THEN Max(Ceil(w.commits[1], CommitsPerDay), MinCommitDays)
       ELSE DefaultWorkDays

\* A resolution whose failure makes the step fail.
gitInfoThrowing(w) ==
  IF ~w.exists \/ ~w.repo
  THEN [ok |-> FALSE, gitInfo |-> NoGitInfo]
  ELSE [ok |-> TRUE,
        gitInfo |->
          [projectUrl |-> IF w.config = "json" THEN Some(ConfigUrl) ELSE None,
           projectName |-> IF w.pwd THEN Some(DirectoryName) ELSE None,
           currentBranch |-> w.branch,
           estimatedWorkDays |-> Some(workDays(w))]]

\* handleBasicInfo, the git information (index.ts 763-891): nothing when the
\* directory is missing or is no repository (the outer catch); otherwise the
\* branch, the name made from the directory, the url of
\* git_info.config.json and the estimate, each in a try block of its own
\* that leaves the field out when it fails. It never makes the step fail.
gitInfo(w) ==
  IF ~w.exists \/ ~w.repo
  THEN [ok |-> TRUE, gitInfo |-> NoGitInfo]
  ELSE [ok |-> TRUE,
        gitInfo |->
          [projectUrl |-> IF w.config = "json" THEN Some(ConfigUrl) ELSE None,
           projectName |-> IF w.pwd THEN Some(DirectoryName) ELSE None,
           currentBranch |-> w.branch,
           estimatedWorkDays |-> Some(workDays(w))]]

\* GitUtils.calculateWorkDays (git-utils.ts 223-314): on a feature branch the
\* age of the merge-base, else the age of the first commit of the branch,
\* each at least 1, else the commits of the last 30 days; on the main line
\* the age of the first commit of the history, 1 without one; 7 when a
\* command outside the inner try blocks fails.
calculateWorkDays(w) ==
  IF ~IsSome(w.branch) THEN DefaultWorkDays
  ELSE IF ~MainLine(w.branch[1])
  THEN IF IsSome(w.mergeBase)
       THEN Max(diffDays(w.mergeBase[1]), 1)
       ELSE IF IsSome(w.firstCommit)
       THEN Max(diffDays(w.firstCommit[1]), 1)
       ELSE IF ~IsSome(w.commits) THEN DefaultWorkDays
       ELSE Max(Ceil(w.commits[1], CommitsPerDay), 1)
  ELSE IF IsSome(w.firstCommit)
       THEN Max(diffDays(w.firstCommit[1]), 1)
       ELSE 1

\* GitUtils.getGitInfo (git-utils.ts 50-105): nothing outside a repository;
\* otherwise the branch (left out when the name is empty), the url and the
\* name of a configuration file, else those of the remote, else the name made
\* from the directory, and the estimate.
getGitInfoOf(w) ==
  IF ~w.exists \/ ~w.repo THEN NoGitInfo
  ELSE [projectUrl |-> IF w.config # "none" THEN Some(ConfigUrl)
                       ELSE IF w.remote THEN Some(RemoteUrl) ELSE None,
        projectName |-> IF w.config # "none" THEN Some(ConfigName)
                        ELSE IF w.remote THEN Some(RemoteName)
                        ELSE Some(DirectoryName),
        currentBranch |-> IF IsSome(w.branch) /\ w.branch[1] # ""
                          THEN w.branch ELSE None,
        estimatedWorkDays |-> Some(calculateWorkDays(w))]

\* GitUtils.getGitInfo has not been called.
NoSnapshot == [done |-> FALSE, gitInfo |-> NoGitInfo]

\* ------------------------------------------------------ the last tool call

\* The project info of an assembled record (crApplication.projectInfo).
NoProjectInfo ==
  [projectName |-> None, participants |-> None, reviewers |-> None,
   gitProjectUrl |-> None, developmentBranch |-> None]

\* What JSON.parse yields for the iteration_data argument of
\* submit_complete_iteration.
NoCRApplication ==
  [projectInfo |-> None, componentModules |-> JAbsent, functionModules |-> JAbsent]

BadIteration == [json |-> FALSE, basicInfo |-> None, crApplication |-> None]

\* No tool call has returned yet.
NoCall ==
  [tool |-> "none", step |-> "", data |-> BadJson, iteration |-> BadIteration,
   ok |-> FALSE, err |-> "", record |-> None, result |-> None,
   remote |-> {}, sent |-> <<>>, cacheCalls |-> {}, notes |-> {},
   gitInfo |-> NoGitInfo]

\* A create_iteration call with its step and data, before it has done anything.
StepCall(step, data) ==
  [NoCall EXCEPT !.tool = "create_iteration", !.step = step, !.data = data]

\* ------------------------------------------------- the collection workflow

\* A start step that forgets to clear the Session.
startSessionKept(s) == s

\* handleIterationStart: the Session the step leaves.
startSession(s) == EmptySession

\* handleIterationStart: the Session is cleared first; the API manager, the
\* project list and the user list are then fetched inside a try block whose
\* catch falls back to the cached lists, and the guidance is returned.
handleIterationStart ==
  \E fetch \in {"ok", "project_list_failed", "user_list_failed"} :
    LET m == getAPIManager(apiManager, sessionToken, envToken, fullConfig, configFile)
        remote == IF ~m.ok THEN {}
                  ELSE IF fetch = "project_list_failed" THEN {"getProjectList"}
                  ELSE {"getProjectList", "getUserList"}
        notes  == IF ~m.ok THEN {"credential_failed"}
                  ELSE IF fetch = "ok" THEN {}
                  ELSE {fetch}
    IN  /\ sessionData' = startSession(sessionData)
        /\ apiManager' = m.apiManager
        /\ fullConfig' = m.fullConfig
        /\ last' = [StepCall("start", BadJson) EXCEPT
                      !.ok = TRUE, !.remote = remote, !.notes = notes]
        /\ UNCHANGED <<sessionToken, envToken, configFile, cache, nextId,
                       inflight, resolution, workspace,
                       snapshot>>

\* A validation that forgets the online time.
basicInfoInvalidLax(obj) ==
  FalsyChars(obj.projectLine) \/ FalsyStr(obj.iterationName)

\* handleBasicInfo: the test of the required fields.
basicInfoInvalid(obj) ==
  FalsyChars(obj.projectLine) \/ FalsyStr(obj.iterationName)
    \/ FalsyStr(obj.onlineTime)

\* A basic_info step that starts the collection again: what the later steps
\* have stored is dropped.
basicInfoStoredAlone(s, basicInfo) ==
  [basicInfo |-> Some(basicInfo), projectInfo |-> None, modules |-> None]

\* A basic_info step that keeps a project info for the next step.
basicInfoStoredWithDefaults(s, basicInfo) ==
  [s EXCEPT !.basicInfo = Some(basicInfo), !.projectInfo = Some(NoPayload)]

\* handleBasicInfo: this.sessionData.basicInfo = basicInfo
basicInfoStored(s, basicInfo) == [s EXCEPT !.basicInfo = Some(basicInfo)]

\* handleBasicInfo: parse, validate, store, record the project line in the
\* cache, then collect the git information of the working directory, which
\* is shown in the response as the defaults of the next step.
handleBasicInfo(data) ==
    LET call == StepCall("basic_info", data)
        g    == gitInfo(workspace)
    IN  /\ IF ~data.json
           THEN /\ last' = [call EXCEPT !.err = "parse"]
                /\ UNCHANGED <<sessionData, cache>>
           ELSE IF basicInfoInvalid(data.obj)
           THEN /\ last' = [call EXCEPT !.err = "validation"]
                /\ UNCHANGED <<sessionData, cache>>
           ELSE /\ sessionData' = basicInfoStored(sessionData, data.obj)
                /\ cache' \in {updateProjectLine(cache, data.obj.projectLine[1],
                                                   written) : written \in BOOLEAN}
                /\ IF g.ok
                   THEN last' = [call EXCEPT !.ok = TRUE,
                                   !.cacheCalls = {"updateProjectLine"},
                                   !.gitInfo = g.gitInfo]
                   ELSE last' = [call EXCEPT !.err = "git",
                                   !.cacheCalls = {"updateProjectLine"}]
        /\ UNCHANGED <<sessionToken, apiManager, fullConfig, envToken,
                       configFile, nextId, inflight, resolution, workspace,
                       snapshot>>

\* A validation that forgets the branch.
projectInfoInvalidLax(obj) ==
  FalsyStr(obj.gitProjectUrl) \/ FalsyStr(obj.gitProjectName)

\* A validation that also demands participants.
projectInfoInvalidStrict(obj) ==
  FalsyStr(obj.gitProjectUrl) \/ FalsyStr(obj.gitProjectName)
    \/ FalsyStr(obj.developmentBranch) \/ ~IsSome(obj.participants)

\* handleProjectInfo: the test of the required fields.
projectInfoInvalid(obj) ==
  FalsyStr(obj.gitProjectUrl) \/ FalsyStr(obj.gitProjectName)
    \/ FalsyStr(obj.developmentBranch)

\* x || [] for an optional list.
OrEmpty(o) == IF IsSome(o) THEN o[1] ELSE <<>>

\* A project_info step that adds the participants of the payload to those it
\* has stored.
handleProjectInfoAdditive(data) ==
    LET call == StepCall("project_info", data)
        participantIds == OrEmpty(data.obj.participants)
        reviewerIds    == OrEmpty(data.obj.reviewers)
        stored         == IF IsSome(sessionData.projectInfo)
                          THEN OrEmpty(sessionData.projectInfo[1].participants)
                          ELSE <<>>
    IN  /\ IF ~data.json
           THEN /\ last' = [call EXCEPT !.err = "parse"]
                /\ UNCHANGED <<sessionData, cache>>
           ELSE IF projectInfoInvalid(data.obj)
           THEN /\ last' = [call EXCEPT !.err = "validation"]
                /\ UNCHANGED <<sessionData, cache>>
           ELSE /\ sessionData' =
                     [sessionData EXCEPT !.projectInfo =
                        Some([data.obj EXCEPT !.participants =
                                Some(stored \o participantIds)])]
                /\ cache' = cache
                /\ last' = [call EXCEPT !.ok = TRUE]
        /\ UNCHANGED <<sessionToken, apiManager, fullConfig, envToken,
                       configFile, nextId, inflight, resolution, workspace,
                       snapshot>>

\* A project_info step for which a cache file that cannot be written is an
\* error of the step.
handleProjectInfoCacheFatal(data) ==
    LET call == StepCall("project_info", data)
        participantIds == OrEmpty(data.obj.participants)
        reviewerIds    == OrEmpty(data.obj.reviewers)
    IN  /\ IF ~data.json
           THEN /\ last' = [call EXCEPT !.err = "parse"]
                /\ UNCHANGED <<sessionData, cache>>
           ELSE IF projectInfoInvalid(data.obj)
           THEN /\ last' = [call EXCEPT !.err = "validation"]
                /\ UNCHANGED <<sessionData, cache>>
           ELSE /\ sessionData' = [sessionData EXCEPT !.projectInfo = Some(data.obj)]
                /\ IF Len(participantIds) > 0 \/ Len(reviewerIds) > 0
                   THEN \E written \in BOOLEAN :
                          /\ cache' = updateRecentPersonnel(cache, participantIds,
                                                            reviewerIds, written)
                          /\ last' = IF written
                                     THEN [call EXCEPT !.ok = TRUE,
                                             !.cacheCalls = {"updateRecentPersonnel"}]
                                     ELSE [call EXCEPT !.err = "cache",
                                             !.cacheCalls = {"updateRecentPersonnel"}]
                   ELSE /\ cache' = cache
                        /\ last' = [call EXCEPT !.ok = TRUE]
        /\ UNCHANGED <<sessionToken, apiManager, fullConfig, envToken,
                       configFile, nextId, inflight, resolution, workspace,
                       snapshot>>

\* handleProjectInfo: parse, validate, store, then record the participants
\* and reviewers as recently used when there is any.
handleProjectInfo(data) ==
    LET call == StepCall("project_info", data)
        participantIds == OrEmpty(data.obj.participants)
        reviewerIds    == OrEmpty(data.obj.reviewers)
    IN  /\ IF ~data.json
           THEN /\ last' = [call EXCEPT !.err = "parse"]
                /\ UNCHANGED <<sessionData, cache>>
           ELSE IF projectInfoInvalid(data.obj)
           THEN /\ last' = [call EXCEPT !.err = "validation"]
                /\ UNCHANGED <<sessionData, cache>>
           ELSE /\ sessionData' = [sessionData EXCEPT !.projectInfo = Some(data.obj)]
                /\ IF Len(participantIds) > 0 \/ Len(reviewerIds) > 0
                   THEN /\ cache' \in {updateRecentPersonnel(cache, participantIds,
                                                               reviewerIds, written) :
                                        written \in BOOLEAN}
                        /\ last' = [call EXCEPT !.ok = TRUE,
                                      !.cacheCalls = {"updateRecentPersonnel"}]
                   ELSE /\ cache' = cache
                        /\ last' = [call EXCEPT !.ok = TRUE]
        /\ UNCHANGED <<sessionToken, apiManager, fullConfig, envToken,
                       configFile, nextId, inflight, resolution, workspace,
                       snapshot>>

\* A validation for which an empty list counts as missing.
modulesInvalidEmpty(obj) ==
  \/ JFalsy(obj.componentModules) \/ obj.componentModules.v = <<>>
  \/ JFalsy(obj.functionModules) \/ obj.functionModules.v = <<>>

\* handleModules: the test of the two module lists.
modulesInvalid(obj) == JFalsy(obj.componentModules) \/ JFalsy(obj.functionModules)

\* A check that forgets the project info.
sessionIncompleteLax(s) == ~IsSome(s.basicInfo)

\* handleModules: the test for the data of the earlier steps.
sessionIncomplete(s) == ~IsSome(s.basicInfo) \/ ~IsSome(s.projectInfo)

\* An assembly that leaves out the module lists that are empty.
completeIterationDropEmpty(s, modules) ==
  LET basicInfo   == IF IsSome(s.basicInfo) THEN s.basicInfo[1] ELSE NoPayload
      projectInfo == IF IsSome(s.projectInfo) THEN s.projectInfo[1] ELSE NoPayload
      Kept(x)     == IF x.v = <<>> THEN JAbsent ELSE x
  IN  [basicInfo |-> basicInfo,
       crApplication |->
         [projectInfo |->
            [projectName |-> projectInfo.gitProjectName,
             participants |-> Some(OrEmpty(projectInfo.participants)),
             reviewers |-> None,
             gitProjectUrl |-> projectInfo.gitProjectUrl,
             developmentBranch |-> projectInfo.developmentBranch],
          componentModules |-> Kept(modules.componentModules),
          functionModules |-> Kept(modules.functionModules)]]

\* handleModules: the complete iteration assembled from the Session and the
\* module lists of the payload.
completeIteration(s, modules) ==
  LET basicInfo   == IF IsSome(s.basicInfo) THEN s.basicInfo[1] ELSE NoPayload
      projectInfo == IF IsSome(s.projectInfo) THEN s.projectInfo[1] ELSE NoPayload
  IN  [basicInfo |-> basicInfo,
       crApplication |->
         [projectInfo |->
            [projectName |-> projectInfo.gitProjectName,
             participants |-> Some(OrEmpty(projectInfo.participants)),
             reviewers |-> None,
             gitProjectUrl |-> projectInfo.gitProjectUrl,
             developmentBranch |-> projectInfo.developmentBranch],
          componentModules |-> modules.componentModules,
          functionModules |-> modules.functionModules]]

\* A modules step that submits the record it has assembled.
handleModulesSubmitting(data) ==
  LET call   == StepCall("modules", data)
      stored == [sessionData EXCEPT !.modules = Some(data.obj)]
  IN  /\ IF ~data.json
         THEN /\ last' = [call EXCEPT !.err = "parse"]
              /\ UNCHANGED sessionData
         ELSE IF modulesInvalid(data.obj)
         THEN /\ last' = [call EXCEPT !.err = "validation"]
              /\ UNCHANGED sessionData
         ELSE /\ sessionData' = stored
              /\ IF sessionIncomplete(stored)
                 THEN last' = [call EXCEPT !.err = "incomplete_session"]
                 ELSE last' = [call EXCEPT !.ok = TRUE,
                                 !.record = Some(completeIteration(stored, data.obj)),
                                 !.remote = {"createSprint", "createCrRequest"}]
      /\ UNCHANGED <<sessionToken, apiManager, fullConfig, envToken,
                     configFile, cache, nextId, inflight, resolution, workspace,
                       snapshot>>

\* handleModules: parse, validate, store the modules, then check the Session
\* and return the assembled record for the user to confirm.
handleModules(data) ==
  LET call   == StepCall("modules", data)
      stored == [sessionData EXCEPT !.modules = Some(data.obj)]
  IN  /\ IF ~data.json
         THEN /\ last' = [call EXCEPT !.err = "parse"]
              /\ UNCHANGED sessionData
         ELSE IF modulesInvalid(data.obj)
         THEN /\ last' = [call EXCEPT !.err = "validation"]
              /\ UNCHANGED sessionData
         ELSE /\ sessionData' = stored
              /\ IF sessionIncomplete(stored)
                 THEN last' = [call EXCEPT !.err = "incomplete_session"]
                 ELSE last' = [call EXCEPT !.ok = TRUE,
                                 !.record = Some(completeIteration(stored, data.obj))]
      /\ UNCHANGED <<sessionToken, apiManager, fullConfig, envToken,
                     configFile, cache, nextId, inflight, resolution, workspace,
                       snapshot>>

\* handleCreateIteration, default case: a step it does not know.
handleUnknownStep ==
  /\ last' = [StepCall("other", BadJson) EXCEPT !.err = "unknown_step"]
  /\ UNCHANGED <<sessionData, sessionToken, apiManager, fullConfig, envToken,
                 configFile, cache, nextId, inflight, resolution, workspace,
                       snapshot>>

\* ------------------------------------------------------ the remote service

\* The project list the remote service returns.
ProjectList ==
  <<[id |-> 1, name |-> <<"C", "o", "r", "e">>],
    [id |-> 2, name |-> <<"G", "r", "o", "w", "t", "h">>]>>

\* A request of a submit and its response: the operation, the ids the request
\* carries (projectId for createSprint, sprintId for getIterationDetail and
\* createCrRequest), how the service answered ("ok", "rejected": success is
\* false, "http": a transport or HTTP error) and the id it returned. The body
\* is that of createCrRequest: the two id texts of the application.
Request(op, projectId, sprintId, resp, id) ==
  [op |-> op, projectId |-> projectId, sprintId |-> sprintId, resp |-> resp,
   id |-> id, body |-> None]

\* Array.prototype.find over the project list: of the indexes of the projects
\* that satisfy the test, the first one, 0 when there is none.
FirstMatch(hits) ==
  IF hits = {} THEN 0 ELSE CHOOSE i \in hits : \A j \in hits : i <= j

\* A matching that tries the names when no project has the id.
matchProjectFallback(projectLine, list) ==
  LET inputAsNumber == parseInt(projectLine)
      byId   == IF IsSome(inputAsNumber) /\ inputAsNumber[1] > 0
                THEN FirstMatch({k \in 1..Len(list) : list[k].id = inputAsNumber[1]})
                ELSE 0
      byName == FirstMatch({k \in 1..Len(list) :
                  \/ list[k].name = projectLine
                  \/ Includes(list[k].name, projectLine)
                  \/ Includes(projectLine, list[k].name)})
  IN  IF byId > 0 THEN [ok |-> TRUE, projectId |-> list[byId].id]
      ELSE IF byName > 0 THEN [ok |-> TRUE, projectId |-> list[byName].id]
      ELSE [ok |-> FALSE, projectId |-> 0]

\* A matching that falls back to the first project when nothing matches.
matchProjectDefault(projectLine, list) ==
  LET inputAsNumber == parseInt(projectLine)
      i == IF IsSome(inputAsNumber) /\ inputAsNumber[1] > 0
           THEN FirstMatch({k \in 1..Len(list) : list[k].id = inputAsNumber[1]})
           ELSE FirstMatch({k \in 1..Len(list) :
                  \/ list[k].name = projectLine
                  \/ Includes(list[k].name, projectLine)
                  \/ Includes(projectLine, list[k].name)})
  IN  [ok |-> TRUE, projectId |-> IF i > 0 THEN list[i].id ELSE list[1].id]

\* APIManager.createIteration, the matching of basicInfo.projectLine against
\* the project list: a positive parseInt result must be the id of a project;
\* any other input is matched against the names, the first project in list
\* order whose name equals, contains or is contained in the input.
matchProject(projectLine, list) ==
  LET inputAsNumber == parseInt(projectLine)
  IN  IF IsSome(inputAsNumber) /\ inputAsNumber[1] > 0
      THEN LET i == FirstMatch({k \in 1..Len(list) : list[k].id = inputAsNumber[1]})
           IN  IF i > 0 THEN [ok |-> TRUE, projectId |-> inputAsNumber[1]]
               ELSE [ok |-> FALSE, projectId |-> 0]
      ELSE LET i == FirstMatch({k \in 1..Len(list) :
                      \/ list[k].name = projectLine
                      \/ Includes(list[k].name, projectLine)
                      \/ Includes(projectLine, list[k].name)})
           IN  IF i > 0 THEN [ok |-> TRUE, projectId |-> list[i].id]
               ELSE [ok |-> FALSE, projectId |-> 0]

\* Array.prototype.join(', ') of a list of texts.
RECURSIVE Join(_)
Join(texts) ==
  IF texts = <<>> THEN <<>>
  ELSE IF Len(texts) = 1 THEN Head(texts)
  ELSE Head(texts) \o <<",", " ">> \o Join(Tail(texts))

\* APIManager.createIteration: the projects an error message lists, each as
\* name(id).
availableProjects(list) ==
  Join([k \in 1..Len(list) |->
          list[k].name \o <<"(">> \o toString(list[k].id) \o <<")">>])

\* No matching has been tried.
NoResolution ==
  [token |-> <<>>, list |-> <<>>, done |-> FALSE, ok |-> FALSE, projectId |-> 0,
   err |-> "", available |-> <<>>]

\* APIManager.createIteration, the matching and the error it throws: "id" for
\* a number that is the id of no project, "name" for a text that matches no
\* name, each with the list of the available projects.
resolveProject(projectLine, list) ==
  LET m == matchProject(projectLine, list)
      inputAsNumber == parseInt(projectLine)
  IN  [token |-> projectLine, list |-> list, done |-> TRUE, ok |-> m.ok,
       projectId |-> m.projectId,
       err |-> IF m.ok THEN ""
               ELSE IF IsSome(inputAsNumber) /\ inputAsNumber[1] > 0 THEN "id"
               ELSE "name",
       available |-> IF m.ok THEN <<>> ELSE availableProjects(list)]

\* APIManager.createIteration: fetch the project list, match the project,
\* then post the iteration. o.pl and o.cs are the answers of the service and
\* nid the id it gives to an iteration it creates. Reading the project line
\* of a missing basicInfo throws inside the try block of the matching and is
\* reported like a failed fetch.
createIteration(basicInfo, nid, o) ==
  LET list == Request("getProjectList", 0, None, o.pl, 0)
      m    == matchProject(basicInfo[1].projectLine[1], ProjectList)
      post == Request("createSprint", m.projectId, None, o.cs,
                      IF o.cs = "ok" THEN nid ELSE 0)
  IN  IF o.pl # "ok" \/ ~IsSome(basicInfo) \/ ~IsSome(basicInfo[1].projectLine)
      THEN [ok |-> FALSE, err |-> "project_list_failed", sent |-> <<list>>,
            iterationId |-> <<>>]
      ELSE IF ~m.ok
      THEN [ok |-> FALSE, err |-> "project_not_found", sent |-> <<list>>,
            iterationId |-> <<>>]
      ELSE IF o.cs # "ok"
      THEN [ok |-> FALSE, err |-> "create_iteration_failed",
            sent |-> <<list, post>>, iterationId |-> <<>>]
      ELSE [ok |-> TRUE, err |-> "", sent |-> <<list, post>>,
            iterationId |-> toString(nid)]

\* APIManager.verifyIterationCreated: the request it sends; its answer is
\* logged and otherwise ignored.
verifyIterationCreated(iterationId, o) ==
  Request("getIterationDetail", 0, parseInt(iterationId), o.vf, 0)

\* APIManager.createCRApplication: of the payload {...crApplication, sprintId},
\* the two id texts.
Body(crApplicationData) ==
  [participantIds |-> crApplicationData.participantIds,
   checkUserIds |-> crApplicationData.checkUserIds]

\* A createCRApplication that sends the placeholder sprintId of the converted
\* data.
createCRApplicationPlaceholder(iterationId, crApplicationData, o) ==
  LET post == [Request("createCrRequest", 0, Some(crApplicationData.sprintId),
                       o.cr, IF o.cr = "ok" /\ IsSome(o.crId) THEN o.crId[1] ELSE 0)
                 EXCEPT !.body = Some(Body(crApplicationData))]
  IN  IF o.cr # "ok"
      THEN [ok |-> FALSE, sent |-> <<post>>, crApplicationId |-> <<>>]
      ELSE [ok |-> TRUE, sent |-> <<post>>,
            crApplicationId |->
              IF IsSome(o.crId) /\ o.crId[1] # 0 THEN toString(o.crId[1])
              ELSE <<"c", "r", "_">> \o iterationId]

\* A createCRApplication that returns without an id when the request fails.
createCRApplicationSilent(iterationId, crApplicationData, o) ==
  LET post == [Request("createCrRequest", 0, parseInt(iterationId), o.cr,
                       IF o.cr = "ok" /\ IsSome(o.crId) THEN o.crId[1] ELSE 0)
                 EXCEPT !.body = Some(Body(crApplicationData))]
  IN  IF o.cr # "ok"
      THEN [ok |-> TRUE, sent |-> <<post>>, crApplicationId |-> <<>>]
      ELSE [ok |-> TRUE, sent |-> <<post>>,
            crApplicationId |->
              IF IsSome(o.crId) /\ o.crId[1] # 0 THEN toString(o.crId[1])
              ELSE <<"c", "r", "_">> \o iterationId]

\* APIManager.createCRApplication: the placeholder sprintId of the converted
\* data is overwritten with the iteration id; the id of the application is
\* the crRequestId of the answer or, without one, "cr_" and the iteration id.
createCRApplication(iterationId, crApplicationData, o) ==
  LET post == [Request("createCrRequest", 0, parseInt(iterationId), o.cr,
                       IF o.cr = "ok" /\ IsSome(o.crId) THEN o.crId[1] ELSE 0)
                 EXCEPT !.body = Some(Body(crApplicationData))]
  IN  IF o.cr # "ok"
      THEN [ok |-> FALSE, sent |-> <<post>>, crApplicationId |-> <<>>]
      ELSE [ok |-> TRUE, sent |-> <<post>>,
            crApplicationId |->
              IF IsSome(o.crId) /\ o.crId[1] # 0 THEN toString(o.crId[1])
              ELSE <<"c", "r", "_">> \o iterationId]

\* x || [] for a module list.
ListOrEmpty(x) == IF JFalsy(x) THEN <<>> ELSE x.v

\* (x || []).map: the value can be mapped when it is falsy or an array.
Mappable(x) == JFalsy(x) \/ x.t = "list"

\* Array.prototype.join(',') of a list of ids.
RECURSIVE JoinIds(_)
JoinIds(ids) ==
  IF ids = <<>> THEN <<>>
  ELSE IF Len(ids) = 1 THEN toString(Head(ids))
  ELSE toString(Head(ids)) \o <<",">> \o JoinIds(Tail(ids))

\* Array.isArray(x) ? x.join(',') : '' for an optional list of ids.
JoinedOrEmpty(x) == IF IsSome(x) THEN JoinIds(x[1]) ELSE <<>>

\* APIManager.convertToCRApplicationData: the lists of the request, the two
\* id texts (participantIds from projectInfo.participants, checkUserIds from
\* projectInfo.reviewers, of crApplication.projectInfo || {}) and the
\* placeholder sprintId; reading a missing crApplication throws, and so does
\* mapping a module list that is not an array.
convertToCRApplicationData(crApplication) ==
  IF \/ ~IsSome(crApplication)
     \/ ~Mappable(crApplication[1].componentModules)
     \/ ~Mappable(crApplication[1].functionModules)
  THEN [ok |-> FALSE, componentList |-> <<>>, functionList |-> <<>>,
        participantIds |-> <<>>, checkUserIds |-> <<>>, sprintId |-> 0]
  ELSE LET projectInfo == IF IsSome(crApplication[1].projectInfo)
                          THEN crApplication[1].projectInfo[1] ELSE NoProjectInfo
       IN  [ok |-> TRUE,
            componentList |-> ListOrEmpty(crApplication[1].componentModules),
            functionList |-> ListOrEmpty(crApplication[1].functionModules),
            participantIds |-> JoinedOrEmpty(projectInfo.participants),
            checkUserIds |-> JoinedOrEmpty(projectInfo.reviewers),
            sprintId |-> 0]

\* A submit that deletes the iteration when the application cannot be
\* created.
submitCompleteIterationRollback(iteration, nid, o) ==
  LET it == createIteration(iteration.basicInfo, nid, o)
      vf == verifyIterationCreated(it.iterationId, o)
      crApplicationData == convertToCRApplicationData(iteration.crApplication)
      cr == createCRApplication(it.iterationId, crApplicationData, o)
      undo == Request("deleteSprint", 0, parseInt(it.iterationId), "ok", 0)
  IN  IF ~it.ok
      THEN [ok |-> FALSE, err |-> it.err, sent |-> it.sent, result |-> None]
      ELSE IF ~crApplicationData.ok
      THEN [ok |-> FALSE, err |-> "convert_failed", sent |-> it.sent \o <<vf>>,
            result |-> None]
      ELSE IF ~cr.ok
      THEN [ok |-> FALSE, err |-> "create_cr_failed",
            sent |-> it.sent \o <<vf>> \o cr.sent \o <<undo>>, result |-> None]
      ELSE [ok |-> TRUE, err |-> "", sent |-> it.sent \o <<vf>> \o cr.sent,
            result |-> Some([iterationId |-> it.iterationId,
                             crApplicationId |-> cr.crApplicationId])]

\* A submit that sends the request of the application a second time when the
\* first one has failed.
submitCompleteIterationRetrying(iteration, nid, o) ==
  LET it == createIteration(iteration.basicInfo, nid, o)
      vf == verifyIterationCreated(it.iterationId, o)
      crApplicationData == convertToCRApplicationData(iteration.crApplication)
      cr == createCRApplication(it.iterationId, crApplicationData, o)
  IN  IF ~it.ok
      THEN [ok |-> FALSE, err |-> it.err, sent |-> it.sent, result |-> None]
      ELSE IF ~crApplicationData.ok
      THEN [ok |-> FALSE, err |-> "convert_failed", sent |-> it.sent \o <<vf>>,
            result |-> None]
      ELSE IF ~cr.ok
      THEN [ok |-> FALSE, err |-> "create_cr_failed",
            sent |-> it.sent \o <<vf>> \o cr.sent \o cr.sent, result |-> None]
      ELSE [ok |-> TRUE, err |-> "", sent |-> it.sent \o <<vf>> \o cr.sent,
            result |-> Some([iterationId |-> it.iterationId,
                             crApplicationId |-> cr.crApplicationId])]

\* APIManager.submitCompleteIteration: create the iteration, verify it,
\* convert the application and create it.
submitCompleteIteration(iteration, nid, o) ==
  LET it == createIteration(iteration.basicInfo, nid, o)
      vf == verifyIterationCreated(it.iterationId, o)
      crApplicationData == convertToCRApplicationData(iteration.crApplication)
      cr == createCRApplication(it.iterationId, crApplicationData, o)
  IN  IF ~it.ok
      THEN [ok |-> FALSE, err |-> it.err, sent |-> it.sent, result |-> None]
      ELSE IF ~crApplicationData.ok
      THEN [ok |-> FALSE, err |-> "convert_failed", sent |-> it.sent \o <<vf>>,
            result |-> None]
      ELSE IF ~cr.ok
      THEN [ok |-> FALSE, err |-> "create_cr_failed",
            sent |-> it.sent \o <<vf>> \o cr.sent, result |-> None]
      ELSE [ok |-> TRUE, err |-> "", sent |-> it.sent \o <<vf>> \o cr.sent,
            result |-> Some([iterationId |-> it.iterationId,
                             crApplicationId |-> cr.crApplicationId])]

\* The answers the remote service can give to the requests of one submit.
Answers == {"ok", "rejected", "http"}

\* The answers the remote service gives to the requests of one submit: pl to
\* the project list, cs to the creation of the iteration, vf to its
\* verification, cr to the creation of the application, with the crRequestId
\* of its answer. An answer to a request that is never sent is "ok".
Outcomes ==
  {o \in [pl : {"ok", "http"}, cs : Answers, vf : Answers, cr : Answers,
          crId : {None, Some(41)}] :
     /\ o.pl # "ok" => o.cs = "ok"
     /\ (o.pl # "ok" \/ o.cs # "ok") => (o.vf = "ok" /\ o.cr = "ok")
     /\ (o.pl # "ok" \/ o.cs # "ok" \/ o.cr # "ok") => o.crId = None}

\* ------------------------------------------------------------- submission

\* JSON.parse of the JSON text of an assembled record.
AsIterationData(rec) ==
  [json |-> TRUE, basicInfo |-> Some(rec.basicInfo),
   crApplication |->
     Some([projectInfo |-> Some(rec.crApplication.projectInfo),
           componentModules |-> rec.crApplication.componentModules,
           functionModules |-> rec.crApplication.functionModules])]

\* A check that forgets crApplication.
recordIncompleteLax(iteration) == ~IsSome(iteration.basicInfo)

\* handleSubmitCompleteIteration: the test of the structure of the record.
recordIncomplete(iteration) ==
  ~IsSome(iteration.basicInfo) \/ ~IsSome(iteration.crApplication)

\* parseInt of each id of a list, NaN dropped.
RECURSIVE ParsedIds(_)
ParsedIds(ids) ==
  IF ids = <<>> THEN <<>>
  ELSE LET n == parseInt(toString(Head(ids)))
       IN  (IF IsSome(n) THEN <<n[1]>> ELSE <<>>) \o ParsedIds(Tail(ids))

\* CacheManager.updateAfterSubmission: the project line, then the participants
\* and the reviewers of the record as recently used. When it throws while it
\* collects the people, the project line has been recorded and the people
\* have not (w2 is false).
updateAfterSubmission(c, iteration, w1, w2) ==
  LET basicInfo == iteration.basicInfo[1]
      pinfo     == IF IsSome(iteration.crApplication)
                   THEN iteration.crApplication[1].projectInfo ELSE None
      c1 == IF FalsyChars(basicInfo.projectLine) THEN c
            ELSE updateProjectLine(c, basicInfo.projectLine[1], w1)
      participantIds ==
            IF IsSome(pinfo) /\ IsSome(pinfo[1].participants)
            THEN ParsedIds(pinfo[1].participants[1]) ELSE <<>>
  IN  updateRecentPersonnel(c1, participantIds, <<>>, w2)

\* A submit_complete_iteration call with its argument.
SubmitCall(iteration_data) ==
  [NoCall EXCEPT !.tool = "submit_complete_iteration",
                 !.iteration = iteration_data]

\* The number of iterations the requests of `sent` have created.
Created(sent) ==
  Cardinality({i \in 1..Len(sent) :
                 sent[i].op = "createSprint" /\ sent[i].resp = "ok"})

\* A response that reports the failure of the cache update as the failure of
\* the submit.
submitResponseCacheFatal(call, r, threw) ==
  IF threw
  THEN [call EXCEPT !.err = "cache_update_failed", !.sent = r.sent,
                    !.cacheCalls = {"updateAfterSubmission"}]
  ELSE [call EXCEPT !.ok = TRUE, !.sent = r.sent, !.result = r.result,
                    !.cacheCalls = {"updateAfterSubmission"}]

\* handleSubmitCompleteIteration after the submitter has returned: the cache
\* update runs in a try block of its own, whose catch only logs (threw), and
\* the response reports the two ids.
submitResponse(call, r, threw) ==
  [call EXCEPT !.ok = TRUE, !.sent = r.sent, !.result = r.result,
               !.cacheCalls = {"updateAfterSubmission"},
               !.notes = IF threw THEN {"cache_update_failed"} ELSE {}]

\* A submit that keeps the Session.
sessionAfterSubmitKept(s) == s

\* handleSubmitCompleteIteration: the Session a successful submit leaves.
sessionAfterSubmit(s) == EmptySession

\* A submit that clears the Session as soon as the record has passed its
\* checks, before the submitter is called.
handleSubmitCompleteIterationClearing(iteration_data) ==
    LET m    == getAPIManager(apiManager, sessionToken, envToken, fullConfig,
                              configFile)
        call == SubmitCall(iteration_data)
    IN  /\ nextId < FirstServerId + MaxCreated
        /\ apiManager' = m.apiManager
        /\ fullConfig' = m.fullConfig
        /\ IF ~m.ok
           THEN /\ last' = [call EXCEPT !.err = m.err]
                /\ UNCHANGED <<sessionData, cache, nextId>>
           ELSE IF ~iteration_data.json
           THEN /\ last' = [call EXCEPT !.err = "json"]
                /\ UNCHANGED <<sessionData, cache, nextId>>
           ELSE IF recordIncomplete(iteration_data)
           THEN /\ last' = [call EXCEPT !.err = "incomplete_record"]
                /\ UNCHANGED <<sessionData, cache, nextId>>
           ELSE \E o \in Outcomes :
             \E r \in {submitCompleteIteration(iteration_data, nextId, o)} :
                 IF ~r.ok
                 THEN /\ last' = [call EXCEPT !.err = r.err, !.sent = r.sent]
                      /\ nextId' = nextId + Created(r.sent)
                      /\ sessionData' = sessionAfterSubmit(sessionData)
                      /\ UNCHANGED cache
                 ELSE \E threw \in BOOLEAN :
                      /\ last' = submitResponse(call, r, threw)
                      /\ nextId' = nextId + Created(r.sent)
                      /\ cache' \in {updateAfterSubmission(cache, iteration_data,
                                                            w1, w2 /\ ~threw) :
                                      w1 \in BOOLEAN, w2 \in BOOLEAN}
                      /\ sessionData' = sessionAfterSubmit(sessionData)
        /\ UNCHANGED <<sessionToken, envToken, configFile, inflight, resolution, workspace,
                       snapshot>>

\* handleSubmitCompleteIteration: the API manager, the parse and the check of
\* the argument, the two-phase submission, then the cache update (its failure
\* is logged only) and the clearing of the Session; every error is caught and
\* reported in the response.
handleSubmitCompleteIteration(iteration_data) ==
    LET m    == getAPIManager(apiManager, sessionToken, envToken, fullConfig,
                              configFile)
        call == SubmitCall(iteration_data)
    IN  /\ nextId < FirstServerId + MaxCreated
        /\ apiManager' = m.apiManager
        /\ fullConfig' = m.fullConfig
        /\ IF ~m.ok
           THEN /\ last' = [call EXCEPT !.err = m.err]
                /\ UNCHANGED <<sessionData, cache, nextId>>
           ELSE IF ~iteration_data.json
           THEN /\ last' = [call EXCEPT !.err = "json"]
                /\ UNCHANGED <<sessionData, cache, nextId>>
           ELSE IF recordIncomplete(iteration_data)
           THEN /\ last' = [call EXCEPT !.err = "incomplete_record"]
                /\ UNCHANGED <<sessionData, cache, nextId>>
           ELSE \E o \in Outcomes :
             \E r \in {submitCompleteIteration(iteration_data, nextId, o)} :
                 IF ~r.ok
                 THEN /\ last' = [call EXCEPT !.err = r.err, !.sent = r.sent]
                      /\ nextId' = nextId + Created(r.sent)
                      /\ UNCHANGED <<sessionData, cache>>
                 ELSE \E threw \in BOOLEAN :
                      /\ last' = submitResponse(call, r, threw)
                      /\ nextId' = nextId + Created(r.sent)
                      /\ cache' \in {updateAfterSubmission(cache, iteration_data,
                                                            w1, w2 /\ ~threw) :
                                      w1 \in BOOLEAN, w2 \in BOOLEAN}
                      /\ sessionData' = sessionAfterSubmit(sessionData)
        /\ UNCHANGED <<sessionToken, envToken, configFile, inflight, resolution, workspace,
                       snapshot>>

\* ------------------------------------------------------------------ login

\* The tokens a DingTalk login can yield.
LoginTokens == {"T1", "T2"}

\* A login that keeps the cached API manager.
handleDingTalkLoginKeepingManager ==
  \E success \in BOOLEAN, accessToken \in LoginTokens :
    LET call == [NoCall EXCEPT !.tool = "login_dingtalk"]
    IN  /\ IF success
           THEN /\ sessionToken' = Some(accessToken)
                /\ last' = [call EXCEPT !.ok = TRUE]
           ELSE /\ UNCHANGED sessionToken
                /\ last' = [call EXCEPT !.err = "login_failed"]
        /\ UNCHANGED <<sessionData, apiManager, fullConfig, envToken, configFile,
                       cache, nextId, inflight, resolution, workspace,
                       snapshot>>

\* handleDingTalkLogin: a successful login sets the session token and drops
\* the cached API manager; a failed one changes nothing.
handleDingTalkLogin ==
  \E success \in BOOLEAN, accessToken \in LoginTokens :
    LET call == [NoCall EXCEPT !.tool = "login_dingtalk"]
    IN  /\ IF success
           THEN /\ sessionToken' = Some(accessToken)
                /\ apiManager' = None
                /\ last' = [call EXCEPT !.ok = TRUE]
           ELSE /\ UNCHANGED <<sessionToken, apiManager>>
                /\ last' = [call EXCEPT !.err = "login_failed"]
        /\ UNCHANGED <<sessionData, fullConfig, envToken, configFile, cache,
                       nextId, inflight, resolution, workspace,
                       snapshot>>

\* ------------------------------------------------------------- the inputs

\* The values of the fields of a basic_info payload.
ProjectLines == {<<"2">>, <<"9">>}

\* A basic_info payload with every required field.
FullBasic(pl) ==
  [NoPayload EXCEPT !.projectLine = Some(pl), !.iterationName = Some("v1"),
                    !.onlineTime = Some("2025-01-01")]

\* The payloads of the basic_info step: complete, or without one of the
\* required fields.
BasicPayloads ==
  {FullBasic(pl) : pl \in ProjectLines}
    \cup {[FullBasic(<<"2">>) EXCEPT !.projectLine = None],
          [FullBasic(<<"2">>) EXCEPT !.iterationName = None],
          [FullBasic(<<"2">>) EXCEPT !.onlineTime = None]}

\* A project_info payload with every required field and the given people.
FullProject(participants, reviewers) ==
  [NoPayload EXCEPT !.gitProjectUrl = Some("https://x/y"),
                    !.gitProjectName = Some("y"),
                    !.developmentBranch = Some("feat/a"),
                    !.participants = participants, !.reviewers = reviewers]

\* The payloads of the project_info step: complete (with and without
\* people), or without one of the required fields.
ProjectPayloads ==
  {FullProject(None, None), FullProject(Some(<<1, 3>>), Some(<<2>>))}
    \cup {[FullProject(Some(<<1, 3>>), Some(<<2>>)) EXCEPT !.gitProjectUrl = None],
          [FullProject(Some(<<1, 3>>), Some(<<2>>)) EXCEPT !.gitProjectName = None],
          [FullProject(Some(<<1, 3>>), Some(<<2>>)) EXCEPT !.developmentBranch = None]}

\* A component module.
Component == [name |-> "Login", reviewer |-> <<"2">>]

\* A modules payload with the two given lists.
Modules(cm, fm) ==
  [NoPayload EXCEPT !.componentModules = cm, !.functionModules = fm]

\* The payloads of the modules step: both lists given (empty or not), or one
\* of them missing or null.
ModulePayloads ==
  {Modules(JList(<<>>), JList(<<>>)), Modules(JList(<<Component>>), JList(<<>>)),
   Modules(JAbsent, JList(<<>>)), Modules(JList(<<>>), JAbsent),
   Modules(JNull, JList(<<>>)), Modules(JList(<<>>), JNull),
   NoPayload}

\* The data argument of a step.
StepData(payloads) == {BadJson} \cup {Json(p) : p \in payloads}

\* A record written by hand: basic info and an empty crApplication object.
BareRecord(b) ==
  [json |-> TRUE, basicInfo |-> Some(b), crApplication |-> Some(NoCRApplication)]

\* A record written by hand without crApplication.
HalfRecord(b) ==
  [json |-> TRUE, basicInfo |-> Some(b), crApplication |-> None]

\* A record written by hand whose componentModules is an object, not a list.
OddRecord(b) ==
  [json |-> TRUE, basicInfo |-> Some(b),
   crApplication |-> Some([NoCRApplication EXCEPT !.componentModules = JObject])]

\* The iteration_data argument: the record the modules step has just shown,
\* a record the caller wrote, or a text that is not JSON.
IterationInputs ==
  {BadIteration}
    \cup (IF IsSome(last.record) THEN {AsIterationData(last.record[1])} ELSE {})
    \cup {BareRecord(FullBasic(<<"2">>)), HalfRecord(FullBasic(<<"2">>)),
          OddRecord(FullBasic(<<"2">>))}

\* ------------------------------------------------------- the specification

EnvTokens == {None}

ConfigFiles == {"none", "auth"}

\* The working directory of the run: a repository on a feature branch that
\* left the main line ten days ago, with a git_info.config.json.
FeatureWorkspace ==
  Workspace(TRUE, TRUE, Some("feat/a"), TRUE, "json", TRUE, Some(240),
            Some(480), Some(10))

Init ==
  /\ sessionData = EmptySession
  /\ sessionToken = None
  /\ apiManager = None
  /\ fullConfig = None
  /\ envToken \in EnvTokens
  /\ configFile \in ConfigFiles
  /\ cache = DefaultCache
  /\ nextId = FirstServerId
  /\ inflight = None
  /\ resolution = NoResolution
  /\ workspace = FeatureWorkspace
  /\ snapshot = NoSnapshot
  /\ last = NoCall

Next ==
  \/ handleIterationStart
  \/ \E data \in StepData(BasicPayloads) : handleBasicInfo(data)
  \/ \E data \in StepData(ProjectPayloads) : handleProjectInfo(data)
  \/ \E data \in StepData(ModulePayloads) : handleModules(data)
  \/ handleUnknownStep
  \/ \E iteration_data \in IterationInputs :
       handleSubmitCompleteIteration(iteration_data)

Spec == Init /\ [][Next]_vars

\* ------------------------------------- the matching of the project line

\* The project lines tried: ids, names, parts of names, names with the case
\* changed, texts that hold a name, texts that match nothing, a text that
\* begins with a digit and a negative number.
Tokens ==
  {<<"1">>, <<"2">>, <<"3">>, <<"9">>, <<"0">>, <<"0", "2">>,
   <<"C", "o", "r", "e">>, <<"C", "o", "r">>,
   <<"G", "r", "o", "w", "t", "h">>, <<"g", "r", "o", "w", "t", "h">>,
   <<"r", "o", "w", "t", "h">>, <<"G", "r", "o">>,
   <<"G", "r", "o", "w", "t", "h", "X">>,
   <<"C", "o", "r", "e", "G", "r", "o", "w", "t", "h">>,
   <<"x", "y", "z">>, <<"2", "a", "b", "c">>, <<"-", "1">>}

\* The project lists tried: the one of the running service, lists in which
\* one name is a part of another, a list with a digit in a name, and the
\* empty list.
ProjectLists ==
  {ProjectList,
   <<[id |-> 1, name |-> <<"G", "r", "o", "w", "t", "h", "X">>],
     [id |-> 2, name |-> <<"G", "r", "o", "w", "t", "h">>]>>,
   <<[id |-> 1, name |-> <<"G", "r", "o">>],
     [id |-> 2, name |-> <<"G", "r", "o", "w", "t", "h">>]>>,
   <<[id |-> 3, name |-> <<"A", "9">>],
     [id |-> 1, name |-> <<"C", "o", "r", "e">>]>>,
   <<>>}

InitResolve ==
  /\ sessionData = EmptySession
  /\ sessionToken = None
  /\ apiManager = None
  /\ fullConfig = None
  /\ envToken = None
  /\ configFile = "auth"
  /\ cache = DefaultCache
  /\ nextId = FirstServerId
  /\ inflight = None
  /\ workspace = FeatureWorkspace
  /\ snapshot = NoSnapshot
  /\ last = NoCall
  /\ \E token \in Tokens, list \in ProjectLists :
       resolution = [NoResolution EXCEPT !.token = token, !.list = list]

\* The matching of createIteration applied to the project line and the list.
resolveProjectLine ==
  /\ ~resolution.done
  /\ resolution' = resolveProject(resolution.token, resolution.list)
  /\ UNCHANGED <<sessionData, sessionToken, apiManager, fullConfig, envToken,
                 configFile, cache, nextId, inflight, workspace, snapshot,
                 last>>

NextResolve == resolveProjectLine

SpecResolve == InitResolve /\ [][NextResolve]_vars

\* ------------------------------------------------- the git information

\* The ages tried, in hours: none, the present moment, five hours, ten days
\* and forty-five days.
Ages == {None, Some(0), Some(5), Some(240), Some(1080)}

\* The numbers of commits of the last 30 days tried.
Commits == {None, Some(0), Some(2), Some(10), Some(100)}

\* The working directories tried: a missing one, one that is no repository,
\* repositories on a feature branch, on the main line, on a detached HEAD
\* and with a failing branch command, with every age and number of commits,
\* and repositories with each source of the project name.
Workspaces ==
  {Workspace(FALSE, FALSE, None, TRUE, "none", FALSE, None, None, None),
   Workspace(TRUE, FALSE, None, TRUE, "none", FALSE, None, None, None),
   Workspace(TRUE, TRUE, None, TRUE, "json", TRUE, None, Some(240), Some(10))}
    \cup {Workspace(TRUE, TRUE, Some("feat/a"), TRUE, "json", TRUE, m, f, c) :
            m \in Ages, f \in Ages, c \in Commits}
    \cup {Workspace(TRUE, TRUE, Some(b), TRUE, "json", TRUE, None, f, c) :
            b \in {"", "main", "master"}, f \in Ages, c \in Commits}
    \cup {Workspace(TRUE, TRUE, Some("feat/a"), pwd, config, remote,
                    Some(240), Some(480), Some(10)) :
            pwd \in BOOLEAN, config \in {"none", "kv", "json"},
            remote \in BOOLEAN}

InitGit ==
  /\ sessionData = EmptySession
  /\ sessionToken = None
  /\ apiManager = None
  /\ fullConfig = None
  /\ envToken = None
  /\ configFile = "auth"
  /\ cache = DefaultCache
  /\ nextId = FirstServerId
  /\ inflight = None
  /\ resolution = NoResolution
  /\ workspace \in Workspaces
  /\ snapshot = NoSnapshot
  /\ last = NoCall

\* GitUtils.getGitInfo called on the working directory.
getGitInfo ==
  /\ snapshot' = [done |-> TRUE, gitInfo |-> getGitInfoOf(workspace)]
  /\ UNCHANGED <<sessionData, sessionToken, apiManager, fullConfig, envToken,
                 configFile, cache, nextId, inflight, resolution, workspace,
                 last>>

NextGit ==
  \/ \E data \in StepData({FullBasic(<<"2">>)}) : handleBasicInfo(data)
  \/ getGitInfo

SpecGit == InitGit /\ [][NextGit]_vars

\* -------------------------------------------------------- the credentials

\* The values of the environment variable tried: unset, empty and a token.
AuthEnvTokens == {None, Some(""), Some("Tenv")}

\* The configuration files tried: none, one that is not JSON, one without a
\* token and one with a token.
AuthConfigFiles == {"none", "bad", "noauth", "auth"}

InitAuth ==
  /\ sessionData = EmptySession
  /\ sessionToken = None
  /\ apiManager = None
  /\ fullConfig = None
  /\ envToken \in AuthEnvTokens
  /\ configFile \in AuthConfigFiles
  /\ cache = DefaultCache
  /\ nextId = FirstServerId
  /\ inflight = None
  /\ resolution = NoResolution
  /\ workspace = FeatureWorkspace
  /\ snapshot = NoSnapshot
  /\ last = NoCall

NextAuth ==
  \/ handleDingTalkLogin
  \/ handleIterationStart
  \/ \E data \in StepData({FullBasic(<<"2">>)}) : handleBasicInfo(data)
  \/ \E iteration_data \in {BareRecord(FullBasic(<<"2">>))} :
       handleSubmitCompleteIteration(iteration_data)

SpecAuth == InitAuth /\ [][NextAuth]_vars

\* ------------------------------------------------- the recent personnel

\* The lists of participant ids tried: none, one id, lists that overlap, a
\* list that names an id twice and a list longer than the cache keeps.
ParticipantLists ==
  {<<>>, <<1>>, <<2, 1>>, <<3, 4>>, <<1, 1>>, <<5, 6, 7>>,
   <<1, 2, 3, 4, 5, 6>>}

\* The lists of reviewer ids tried.
CheckUserLists == {<<>>, <<2>>, <<8, 2>>}

\* A call of CacheManager.updateRecentPersonnel with its two arguments; the
\* note tells that saveCache could not write the file.
PersonnelCall(participantIds, checkUserIds, written) ==
  [NoCall EXCEPT !.tool = "updateRecentPersonnel",
                 !.data = [json |-> TRUE,
                           obj |-> [participantIds |-> participantIds,
                                    checkUserIds |-> checkUserIds]],
                 !.ok = TRUE,
                 !.cacheCalls = {"updateRecentPersonnel"},
                 !.notes = IF written THEN {} ELSE {"save_failed"}]

InitCache ==
  /\ sessionData = EmptySession
  /\ sessionToken = None
  /\ apiManager = None
  /\ fullConfig = None
  /\ envToken = None
  /\ configFile = "auth"
  /\ cache = DefaultCache
  /\ nextId = FirstServerId
  /\ inflight = None
  /\ resolution = NoResolution
  /\ workspace = FeatureWorkspace
  /\ snapshot = NoSnapshot
  /\ last = NoCall

\* CacheManager.updateRecentPersonnel applied to the cache file.
recordRecentPersonnel ==
  \E participantIds \in ParticipantLists, checkUserIds \in CheckUserLists,
     written \in BOOLEAN :
    /\ cache' = updateRecentPersonnel(cache, participantIds, checkUserIds, written)
    /\ last' = PersonnelCall(participantIds, checkUserIds, written)
    /\ UNCHANGED <<sessionData, sessionToken, apiManager, fullConfig, envToken,
                   configFile, nextId, inflight, resolution, workspace,
                   snapshot>>

NextCache == recordRecentPersonnel

SpecCache == InitCache /\ [][NextCache]_vars

\* ------------------------------------------------- the interleaved submit

\* A submit_complete_iteration call that awaits the submitter: its argument,
\* the id the service gives to the iteration it creates, the request it
\* awaits, the requests answered so far, the id of the iteration once it is
\* created, and the last tool call that had returned when it was made.
Awaiting(iteration_data, nid, before) ==
  [iteration |-> iteration_data, nid |-> nid, pc |-> "getProjectList",
   sent |-> <<>>, iterationId |-> <<>>, before |-> before]

\* The answers of a submit of which one request has been answered.
Answered(pl, cs, vf, cr, crId) ==
  [pl |-> pl, cs |-> cs, vf |-> vf, cr |-> cr, crId |-> crId]

\* handleSubmitCompleteIteration up to `await apiManager.submitCompleteIteration`:
\* the API manager, the parse and the check of the argument; an error is
\* reported at once, otherwise the call awaits its first remote call and
\* other tool calls can run.
submitBegins(iteration_data) ==
    LET m    == getAPIManager(apiManager, sessionToken, envToken, fullConfig,
                              configFile)
        call == SubmitCall(iteration_data)
    IN  /\ ~IsSome(inflight)
        /\ nextId < FirstServerId + MaxCreated
        /\ apiManager' = m.apiManager
        /\ fullConfig' = m.fullConfig
        /\ IF ~m.ok
           THEN /\ last' = [call EXCEPT !.err = m.err]
                /\ UNCHANGED inflight
           ELSE IF ~iteration_data.json
           THEN /\ last' = [call EXCEPT !.err = "json"]
                /\ UNCHANGED inflight
           ELSE IF recordIncomplete(iteration_data)
           THEN /\ last' = [call EXCEPT !.err = "incomplete_record"]
                /\ UNCHANGED inflight
           ELSE /\ inflight' = Some(Awaiting(iteration_data, nextId, last))
                /\ UNCHANGED last
        /\ UNCHANGED <<sessionData, sessionToken, envToken, configFile, cache,
                       nextId, resolution, workspace, snapshot>>

\* handleSubmitCompleteIteration, the catch: the submitter has thrown.
submitFails(f, err, sent) ==
  /\ inflight' = None
  /\ last' = [SubmitCall(f.iteration) EXCEPT !.err = err, !.sent = sent]
  /\ UNCHANGED <<sessionData, cache>>

\* The submitter goes on to its next request.
submitAwaits(f, pc, sent, iterationId) ==
  /\ inflight' = Some([f EXCEPT !.pc = pc, !.sent = sent,
                                !.iterationId = iterationId])
  /\ UNCHANGED <<sessionData, cache, last>>

\* handleSubmitCompleteIteration after the submitter has returned: the cache
\* update, whose failure is logged only, the clearing of the Session and the
\* response with the two ids.
submitSucceeds(f, sent, crApplicationId) ==
  \E threw \in BOOLEAN :
    /\ inflight' = None
    /\ last' = submitResponse(SubmitCall(f.iteration),
                              [sent |-> sent,
                               result |-> Some([iterationId |-> f.iterationId,
                                                crApplicationId |-> crApplicationId])],
                              threw)
    /\ cache' \in {updateAfterSubmission(cache, f.iteration, w1, w2 /\ ~threw) :
                    w1 \in BOOLEAN, w2 \in BOOLEAN}
    /\ sessionData' = sessionAfterSubmit(sessionData)

\* A remote call of the submit in flight returns, and the submitter runs up
\* to its next await: createIteration after the project list and after the
\* creation of the iteration, submitCompleteIteration after the verification
\* (the conversion follows it), createCRApplication after the last request.
remoteReturns ==
  /\ IsSome(inflight)
  /\ \E a \in Answers :
       LET f == inflight[1]
       IN  IF f.pc = "getProjectList"
           THEN /\ a # "rejected"
                /\ \E it \in {createIteration(f.iteration.basicInfo, f.nid,
                                               Answered(a, "ok", "ok", "ok", None))} :
                     IF ~it.ok THEN submitFails(f, it.err, it.sent)
                     ELSE submitAwaits(f, "createSprint", <<it.sent[1]>>, <<>>)
                /\ UNCHANGED nextId
           ELSE IF f.pc = "createSprint"
           THEN /\ \E it \in {createIteration(f.iteration.basicInfo, f.nid,
                                               Answered("ok", a, "ok", "ok", None))} :
                     IF ~it.ok THEN submitFails(f, it.err, it.sent)
                     ELSE submitAwaits(f, "getIterationDetail", it.sent,
                                       it.iterationId)
                /\ nextId' = nextId + (IF a = "ok" THEN 1 ELSE 0)
           ELSE IF f.pc = "getIterationDetail"
           THEN /\ \E vf \in {verifyIterationCreated(f.iterationId,
                                   Answered("ok", "ok", a, "ok", None))} :
                     IF ~convertToCRApplicationData(f.iteration.crApplication).ok
                     THEN submitFails(f, "convert_failed", Append(f.sent, vf))
                     ELSE submitAwaits(f, "createCrRequest", Append(f.sent, vf),
                                       f.iterationId)
                /\ UNCHANGED nextId
           ELSE /\ \E crId \in (IF a = "ok" THEN {None, Some(41)} ELSE {None}) :
                     \E cr \in {createCRApplication(f.iterationId,
                                   convertToCRApplicationData(f.iteration.crApplication),
                                   Answered("ok", "ok", "ok", a, crId))} :
                       IF ~cr.ok
                       THEN submitFails(f, "create_cr_failed", f.sent \o cr.sent)
                       ELSE submitSucceeds(f, f.sent \o cr.sent, cr.crApplicationId)
                /\ UNCHANGED nextId
  /\ UNCHANGED <<sessionToken, apiManager, fullConfig, envToken, configFile,
                 resolution, workspace, snapshot>>

\* The arguments of the submits tried: the record the modules step has just
\* shown, a record written by hand, one whose conversion fails and a text
\* that is not JSON.
AsyncInputs ==
  {BadIteration, BareRecord(FullBasic(<<"2">>)), OddRecord(FullBasic(<<"2">>))}
    \cup (IF IsSome(last.record) THEN {AsIterationData(last.record[1])} ELSE {})

InitAsync ==
  /\ sessionData = EmptySession
  /\ sessionToken = None
  /\ apiManager = None
  /\ fullConfig = None
  /\ envToken = None
  /\ configFile = "auth"
  /\ cache = DefaultCache
  /\ nextId = FirstServerId
  /\ inflight = None
  /\ resolution = NoResolution
  /\ workspace = FeatureWorkspace
  /\ snapshot = NoSnapshot
  /\ last = NoCall

NextAsync ==
  \/ handleIterationStart
  \/ \E data \in {Json(FullBasic(<<"9">>))} : handleBasicInfo(data)
  \/ \E data \in {Json(FullProject(Some(<<1, 3>>), Some(<<2>>)))} :
       handleProjectInfo(data)
  \/ \E data \in {Json(Modules(JList(<<>>), JList(<<>>)))} : handleModules(data)
  \/ \E iteration_data \in AsyncInputs : submitBegins(iteration_data)
  \/ remoteReturns

SpecAsync == InitAsync /\ [][NextAsync]_vars

\* The submits of one flow: the start, the first step, and a submit with its
\* remote calls.
NextSubmit ==
  \/ handleIterationStart
  \/ \E data \in {Json(FullBasic(<<"9">>))} : handleBasicInfo(data)
  \/ \E iteration_data \in AsyncInputs : submitBegins(iteration_data)
  \/ remoteReturns

\* Every remote call returns: a submit in flight is not left waiting for ever.
SpecSubmitLive == InitAsync /\ [][NextSubmit]_vars /\ WF_vars(remoteReturns)

\* ------------------------------------------------------------- the claims

\* The operations that change the remote service.
Mutations == {"createSprint", "createCrRequest"}

\* The last call was a create_iteration step of the given name.
IsStep(call, step) == call.tool = "create_iteration" /\ call.step = step

\* The last call was a submit_complete_iteration whose record reached the
\* two-phase submitter: the submitter's first request was sent.
Handed(call) == call.tool = "submit_complete_iteration" /\ Len(call.sent) > 0

\* The requests of `sent` that are of the given operations.
Sent(sent, ops) == {i \in 1..Len(sent) : sent[i].op \in ops}

\* C1: the start step leaves the Session empty (basicInfo, projectInfo and
\* modules all absent) and returns a success response, from any state and
\* also when the credential lookup or the remote list calls fail.
C1_StartClearsSession ==
  IsStep(last, "start") => (sessionData = EmptySession /\ last.ok)

\* C1, its case: a start whose credential lookup failed, in a run in which a
\* basic_info step had succeeded before.
C1_Witness ==
  /\ IsStep(last, "start")
  /\ "credential_failed" \in last.notes
  /\ IsSome(cache.defaultProjectLine)

HasProjectFields(obj) ==
  /\ IsSome(obj.gitProjectUrl)
  /\ IsSome(obj.gitProjectName)
  /\ IsSome(obj.developmentBranch)

HasModuleLists(obj) ==
  obj.componentModules.t = "list" /\ obj.functionModules.t = "list"

\* C4: a modules step whose payload passes validation fails with the
\* incomplete-session error when the basic info or the project info is absent
\* from the Session, and returns a record, built from both, only when both
\* are present.
C4_ModulesNeedsSession ==
  [][(IsStep(last', "modules") /\ last'.data.json /\ HasModuleLists(last'.data.obj))
     => IF ~IsSome(sessionData.basicInfo) \/ ~IsSome(sessionData.projectInfo)
        THEN /\ ~last'.ok
             /\ last'.err = "incomplete_session"
             /\ ~IsSome(last'.record)
        ELSE /\ last'.ok
             /\ IsSome(last'.record)
             /\ last'.record[1].basicInfo = sessionData.basicInfo[1]
             /\ last'.record[1].crApplication.projectInfo.gitProjectUrl
                  = sessionData.projectInfo[1].gitProjectUrl]_vars

\* C4, its case: a valid modules payload met a Session with basic info and
\* without project info.
C4_Witness ==
  /\ IsStep(last, "modules")
  /\ last.err = "incomplete_session"
  /\ IsSome(sessionData.basicInfo)
  /\ ~IsSome(sessionData.projectInfo)

\* C5: a basic_info step whose payload lacks projectLine, iterationName or
\* onlineTime fails with a validation error and leaves the Session as it was.
C5_BasicInfoValidation ==
  [][(/\ IsStep(last', "basic_info")
      /\ last'.data.json
      /\ \/ ~IsSome(last'.data.obj.projectLine)
         \/ ~IsSome(last'.data.obj.iterationName)
         \/ ~IsSome(last'.data.obj.onlineTime))
     => (/\ ~last'.ok
         /\ last'.err = "validation"
         /\ sessionData' = sessionData)]_vars

\* C5, its case: a payload without onlineTime was rejected while the Session
\* held the data of earlier steps.
C5_Witness ==
  /\ IsStep(last, "basic_info")
  /\ last.err = "validation"
  /\ ~IsSome(last.data.obj.onlineTime)
  /\ IsSome(last.data.obj.projectLine)
  /\ IsSome(sessionData.basicInfo)
  /\ IsSome(sessionData.projectInfo)

\* C6: a project_info step whose payload lacks the git URL, the git project
\* name or the branch fails with a validation error, keeps the stored project
\* info and writes no recent-personnel record to the cache.
C6_ProjectInfoValidation ==
  [][(/\ IsStep(last', "project_info")
      /\ last'.data.json
      /\ ~HasProjectFields(last'.data.obj))
     => (/\ ~last'.ok
         /\ last'.err = "validation"
         /\ sessionData'.projectInfo = sessionData.projectInfo
         /\ cache' = cache
         /\ last'.cacheCalls = {})]_vars

\* C6, its case: a payload with people and without the branch was rejected
\* while the Session held a project info.
C6_Witness ==
  /\ IsStep(last, "project_info")
  /\ last.err = "validation"
  /\ ~IsSome(last.data.obj.developmentBranch)
  /\ IsSome(last.data.obj.gitProjectUrl)
  /\ IsSome(last.data.obj.participants)
  /\ IsSome(sessionData.projectInfo)

\* C7 as stated: a modules step fails with a validation error exactly when
\* the componentModules key or the functionModules key is absent from the
\* payload.
C7_ModulesKeyAbsent ==
  (IsStep(last, "modules") /\ last.data.json) =>
    (last.err = "validation"
       <=> \/ last.data.obj.componentModules.t = "absent"
           \/ last.data.obj.functionModules.t = "absent")

\* C7 as amended: a modules step fails with a validation error, leaving the
\* Session unchanged, exactly when the value of componentModules or of
\* functionModules is missing or null; a payload with both lists, empty or
\* not, passes validation.
C7_ModulesValidation ==
  [][(IsStep(last', "modules") /\ last'.data.json)
     => /\ last'.err = "validation" <=> ~HasModuleLists(last'.data.obj)
        /\ last'.err = "validation" => (~last'.ok /\ sessionData' = sessionData)]_vars

\* C7, its case: a payload with two empty lists has passed validation.
C7_Witness ==
  /\ IsStep(last, "modules")
  /\ last.data.json
  /\ last.data.obj.componentModules = JList(<<>>)
  /\ last.data.obj.functionModules = JList(<<>>)
  /\ last.ok

\* C8: no create_iteration step (start, basic_info, project_info, modules)
\* creates an iteration or a CR application: it sends no such request and
\* the remote service creates nothing.
C8_StepsNeverSubmit ==
  [][last'.tool = "create_iteration"
     => (/\ last'.remote \cap Mutations = {}
         /\ Sent(last'.sent, Mutations) = {}
         /\ ~IsSome(last'.result)
         /\ nextId' = nextId)]_vars

\* C8, its case: a modules step has returned the assembled record.
C8_Witness ==
  IsStep(last, "modules") /\ last.ok /\ IsSome(last.record)

\* C9: within one submit, a CR application request is sent only after an
\* iteration was created by that submit, and its sprintId is the id that
\* creation returned, never the placeholder 0.
C9_DependentAfterParent ==
  last.tool = "submit_complete_iteration" =>
    \A i \in Sent(last.sent, {"createCrRequest"}) :
      /\ last.sent[i].sprintId # Some(0)
      /\ \E j \in 1..(i - 1) :
           /\ last.sent[j].op = "createSprint"
           /\ last.sent[j].resp = "ok"
           /\ last.sent[i].sprintId = Some(last.sent[j].id)

\* C9, its case: the second iteration of a run has got its CR application.
C9_Witness ==
  /\ last.tool = "submit_complete_iteration"
  /\ last.ok
  /\ \E i \in Sent(last.sent, {"createCrRequest"}) :
       last.sent[i].sprintId = Some(FirstServerId + 1)

\* No project of the list has the given text as its id or a name that
\* equals, contains or is contained in it.
NoProjectMatches(projectLine) ==
  \A i \in 1..Len(ProjectList) :
    /\ toString(ProjectList[i].id) # projectLine
    /\ ~Includes(ProjectList[i].name, projectLine)
    /\ ~Includes(projectLine, ProjectList[i].name)

\* C10: when the project list cannot be fetched or no project matches the
\* project line, the submit fails without sending the request that creates
\* the iteration or the one that creates the CR application, and returns no
\* result.
C10_ResolveFailureAborts ==
  (/\ Handed(last)
   /\ \/ last.sent[1].resp # "ok"
      \/ /\ IsSome(last.iteration.basicInfo)
         /\ IsSome(last.iteration.basicInfo[1].projectLine)
         /\ NoProjectMatches(last.iteration.basicInfo[1].projectLine[1]))
  => /\ ~last.ok
     /\ last.err \in {"project_list_failed", "project_not_found"}
     /\ ~IsSome(last.result)
     /\ Sent(last.sent, Mutations) = {}

\* C10, its case: the project list was fetched and no project matched.
C10_Witness ==
  /\ Handed(last)
  /\ last.sent[1].resp = "ok"
  /\ last.err = "project_not_found"
  /\ NoProjectMatches(last.iteration.basicInfo[1].projectLine[1])

\* The last call was a submit_complete_iteration.
IsSubmit(call) == call.tool = "submit_complete_iteration"

\* The requests of `sent` of the given operation that the service answered
\* with a success.
Done(sent, op) == {i \in Sent(sent, {op}) : sent[i].resp = "ok"}

\* The requests of `sent` of the given operation that failed.
Failed(sent, op) == {i \in Sent(sent, {op}) : sent[i].resp # "ok"}

\* The operations the two-phase submitter has.
SubmitOps == {"getProjectList", "createSprint", "getIterationDetail",
              "createCrRequest"}

\* C11: when the iteration is created and the creation of the CR application
\* then fails, the submit ends with an error and without a result, and sends
\* nothing after the failed request: no delete, no other mutation of the
\* iteration it has created.
C11_NoRollback ==
  (IsSubmit(last) /\ Done(last.sent, "createSprint") # {}
     /\ Failed(last.sent, "createCrRequest") # {})
  => /\ ~last.ok
     /\ last.err = "create_cr_failed"
     /\ ~IsSome(last.result)
     /\ \A i \in 1..Len(last.sent) : last.sent[i].op \in SubmitOps
     /\ Cardinality(Sent(last.sent, Mutations)) = 2
     /\ last.sent[Len(last.sent)].op = "createCrRequest"

\* C11, its case: the iteration was created and the service rejected the CR
\* application.
C11_Witness ==
  /\ IsSubmit(last)
  /\ Done(last.sent, "createSprint") # {}
  /\ \E i \in Failed(last.sent, "createCrRequest") : last.sent[i].resp = "rejected"

\* C12 as stated: whatever the verification of the iteration answers, the
\* creation of the CR application is attempted after it, and the submit never
\* ends with the verification as its error.
C12_VerifyNonFatal ==
  IsSubmit(last) =>
    \A i \in Sent(last.sent, {"getIterationDetail"}) :
      /\ \E j \in (i + 1)..Len(last.sent) : last.sent[j].op = "createCrRequest"
      /\ last.sent[i].resp # "ok" => last.err \in {"", "create_cr_failed"}

\* C13 as stated: a failure of the transformation of the record happens
\* before any remote mutation, so it leaves no iteration without its CR
\* application.
C13_TransformBeforeParent ==
  (IsSubmit(last) /\ last.err = "convert_failed")
  => Sent(last.sent, Mutations) = {}

\* The iteration and the CR application of the last submit were both created.
BothCreated(call) ==
  /\ IsSubmit(call)
  /\ Done(call.sent, "createSprint") # {}
  /\ Done(call.sent, "createCrRequest") # {}

\* C14: when both creations succeed, the submit reports success with the id
\* of the iteration and the id of the CR application and clears the Session,
\* also when the cache update after it fails.
C14_CacheFailureSwallowed ==
  BothCreated(last) =>
    /\ last.ok
    /\ IsSome(last.result)
    /\ \E i \in Done(last.sent, "createSprint"),
          j \in Done(last.sent, "createCrRequest") :
         /\ last.result[1].iterationId = toString(last.sent[i].id)
         /\ last.result[1].crApplicationId =
              IF last.sent[j].id # 0 THEN toString(last.sent[j].id)
              ELSE <<"c", "r", "_">> \o toString(last.sent[i].id)
    /\ sessionData = EmptySession

\* C14, its case: both creations succeeded, the cache update threw and the
\* cache has kept no project line.
C14_Witness ==
  /\ BothCreated(last)
  /\ "cache_update_failed" \in last.notes
  /\ ~IsSome(cache.defaultProjectLine)

\* C15: a successful submit leaves the Session empty, and a modules step that
\* follows it with a valid payload fails with the incomplete-session error.
C15_SubmitClearsSession ==
  [][/\ (IsSubmit(last') /\ last'.ok) => sessionData' = EmptySession
     /\ (/\ IsSubmit(last) /\ last.ok
         /\ IsStep(last', "modules")
         /\ last'.data.json
         /\ HasModuleLists(last'.data.obj))
        => (/\ ~last'.ok
            /\ last'.err = "incomplete_session"
            /\ ~IsSome(last'.record))]_vars

\* C15, its case: the record the modules step had assembled from a full
\* Session was submitted with success.
C15_Witness ==
  /\ IsSubmit(last)
  /\ last.ok
  /\ IsSome(last.iteration.crApplication[1].projectInfo)
  /\ sessionData = EmptySession

\* The step names whose payload is stored in the Session.
StoringSteps == {"basic_info", "project_info", "modules"}

\* C16: a step that repeats the step before it with the same valid payload
\* leaves the Session as the first one left it.
C16_StepIdempotent ==
  [][(/\ last.tool = "create_iteration"
      /\ last.step \in StoringSteps
      /\ last.data.json
      /\ last.err \notin {"parse", "validation"}
      /\ last'.tool = "create_iteration"
      /\ last'.step = last.step
      /\ last'.data = last.data)
     => sessionData' = sessionData]_vars

\* C16, its case: a project_info payload with participants is stored.
C16_Witness ==
  /\ IsStep(last, "project_info")
  /\ last.ok
  /\ IsSome(last.data.obj.participants)
  /\ sessionData.projectInfo = Some(last.data.obj)
  /\ IsSome(sessionData.basicInfo)

\* A basic_info payload with the project line, the name and the online time.
HasBasicFields(obj) ==
  /\ IsSome(obj.projectLine)
  /\ IsSome(obj.iterationName)
  /\ IsSome(obj.onlineTime)

\* C17: start succeeds; basic_info and project_info with a valid payload
\* succeed and store the payload as given; modules with both lists, after
\* them, succeeds and returns a record whose basic info is the stored one,
\* whose project fields are those of the stored project info and whose module
\* lists are those of the payload, empty ones included.
C17_RecordVerbatim ==
  [][/\ IsStep(last', "start") => last'.ok
     /\ (IsStep(last', "basic_info") /\ last'.data.json
           /\ HasBasicFields(last'.data.obj))
        => (last'.ok /\ sessionData'.basicInfo = Some(last'.data.obj))
     /\ (IsStep(last', "project_info") /\ last'.data.json
           /\ HasProjectFields(last'.data.obj))
        => (last'.ok /\ sessionData'.projectInfo = Some(last'.data.obj))
     /\ (IsStep(last', "modules") /\ last'.data.json
           /\ HasModuleLists(last'.data.obj)
           /\ IsSome(sessionData.basicInfo) /\ IsSome(sessionData.projectInfo))
        => /\ last'.ok
           /\ IsSome(last'.record)
           /\ last'.record[1].basicInfo = sessionData.basicInfo[1]
           /\ last'.record[1].crApplication.projectInfo.projectName
                = sessionData.projectInfo[1].gitProjectName
           /\ last'.record[1].crApplication.projectInfo.gitProjectUrl
                = sessionData.projectInfo[1].gitProjectUrl
           /\ last'.record[1].crApplication.projectInfo.developmentBranch
                = sessionData.projectInfo[1].developmentBranch
           /\ last'.record[1].crApplication.projectInfo.participants
                = Some(OrEmpty(sessionData.projectInfo[1].participants))
           /\ last'.record[1].crApplication.componentModules
                = last'.data.obj.componentModules
           /\ last'.record[1].crApplication.functionModules
                = last'.data.obj.functionModules]_vars

\* C17, its case: the record of project line "2" with two empty module lists.
C17_Witness ==
  /\ IsStep(last, "modules")
  /\ last.ok
  /\ last.record[1].basicInfo = FullBasic(<<"2">>)
  /\ last.record[1].crApplication.componentModules = JList(<<>>)
  /\ last.record[1].crApplication.functionModules = JList(<<>>)

\* A text of decimal digits whose value is positive.
IsPositiveInteger(token) ==
  /\ token # <<>>
  /\ \A i \in 1..Len(token) : IsDigit(token[i])
  /\ DigitPrefix(token, 0) > 0

\* name(id), as an error message lists a project.
Listed(project) ==
  project.name \o <<"(">> \o toString(project.id) \o <<")">>

\* C18: a project line that is a positive integer resolves exactly when a
\* project of the list has that id, and to that id; otherwise the matching
\* fails with the id error, which lists every project as name(id), and no
\* name is tried.
C18_NumericToken ==
  (resolution.done /\ IsPositiveInteger(resolution.token)) =>
    LET n    == DigitPrefix(resolution.token, 0)
        list == resolution.list
    IN  IF \E k \in 1..Len(list) : list[k].id = n
        THEN resolution.ok /\ resolution.projectId = n
        ELSE /\ ~resolution.ok
             /\ resolution.err = "id"
             /\ \A k \in 1..Len(list) :
                  Includes(resolution.available, Listed(list[k]))

\* C18, its case: "9" is the id of no project and a part of the name of one.
C18_Witness ==
  /\ resolution.done
  /\ resolution.token = <<"9">>
  /\ \E k \in 1..Len(resolution.list) :
       Includes(resolution.list[k].name, resolution.token)
  /\ ~resolution.ok

\* The first project of the list, in listed order, that satisfies the first
\* of the three rules that any project satisfies; 0 when none does.
ByPriority(token, list) ==
  LET equal     == {k \in 1..Len(list) : list[k].name = token}
      contains  == {k \in 1..Len(list) : Includes(list[k].name, token)}
      contained == {k \in 1..Len(list) : Includes(token, list[k].name)}
      Least(set) == CHOOSE k \in set : \A j \in set : k <= j
  IN  IF equal # {} THEN Least(equal)
      ELSE IF contains # {} THEN Least(contains)
      ELSE IF contained # {} THEN Least(contained)
      ELSE 0

\* C19 as stated: a project line that is no number resolves to the project
\* the three rules select in priority order over the whole list (equal name,
\* then name containing the text, then name contained in the text; within a
\* rule the first listed), and fails, listing the projects, when there is none.
C19_PriorityOrder ==
  (resolution.done /\ ~IsSome(parseInt(resolution.token))) =>
    LET k == ByPriority(resolution.token, resolution.list)
    IN  IF k > 0
        THEN resolution.ok /\ resolution.projectId = resolution.list[k].id
        ELSE /\ ~resolution.ok
             /\ \A j \in 1..Len(resolution.list) :
                  Includes(resolution.available, Listed(resolution.list[j]))

\* The text "growth", in lower case.
LowerGrowth == <<"g", "r", "o", "w", "t", "h">>

\* C20 as stated: on the list [Core(1), Growth(2)] the project line "growth"
\* resolves to the project 2.
C20_LowerCaseResolves ==
  (resolution.done /\ resolution.list = ProjectList
     /\ resolution.token = LowerGrowth)
  => (resolution.ok /\ resolution.projectId = 2)

\* C20 as amended: on the list [Core(1), Growth(2)] the project line "growth"
\* matches no project, the matching being sensitive to case, and fails with
\* the list of both projects; "Growth" and its part "rowth" resolve to 2.
C20_CaseSensitive ==
  (resolution.done /\ resolution.list = ProjectList) =>
    /\ resolution.token = LowerGrowth
       => /\ ~resolution.ok
          /\ resolution.err = "name"
          /\ \A k \in 1..Len(ProjectList) :
               Includes(resolution.available, Listed(ProjectList[k]))
    /\ resolution.token \in {<<"G", "r", "o", "w", "t", "h">>,
                             <<"r", "o", "w", "t", "h">>}
       => (resolution.ok /\ resolution.projectId = 2)

\* C20, its case: "growth" has been matched against [Core(1), Growth(2)].
C20_Witness ==
  /\ resolution.done
  /\ resolution.list = ProjectList
  /\ resolution.token = LowerGrowth
  /\ ~resolution.ok

\* The environment variable holds a token.
EnvTokenSet == IsSome(envToken) /\ envToken[1] # ""

\* A configuration with a token is loaded or can be loaded.
ConfigTokenSet ==
  \/ IsSome(fullConfig) /\ fullConfig[1] = "auth"
  \/ ~IsSome(fullConfig) /\ configFile = "auth"

\* The errors of a credential lookup that finds no token.
CredentialErrors == {"no_config_file", "config_unreadable", "no_token"}

\* C21: when there is no session token, no token in the environment and no
\* configuration that holds one, a submit fails with the error of the
\* credential lookup, sends no request, returns no result and leaves the
\* Session as it was.
C21_NoCredentialNoSubmit ==
  [][(/\ IsSubmit(last')
      /\ ~IsSome(sessionToken) /\ ~EnvTokenSet /\ ~ConfigTokenSet)
     => /\ ~last'.ok
        /\ last'.err \in CredentialErrors
        /\ last'.sent = <<>>
        /\ last'.remote = {}
        /\ last'.result = None
        /\ sessionData' = sessionData]_vars

\* C21, its case: a submit has failed for want of a token while the Session
\* holds a basic info.
C21_Witness ==
  /\ IsSubmit(last)
  /\ last.err = "no_token"
  /\ ~IsSome(sessionToken) /\ ~EnvTokenSet /\ ~ConfigTokenSet
  /\ IsSome(sessionData.basicInfo)

\* The first token of the chain: the session token, else the token of the
\* environment, else the token of the configuration file.
FirstAvailable ==
  IF IsSome(sessionToken) THEN sessionToken
  ELSE IF EnvTokenSet THEN envToken
  ELSE IF ConfigTokenSet THEN Some(ConfigToken)
  ELSE None

\* The call asks for the API manager.
UsesManager(call) == IsSubmit(call) \/ IsStep(call, "start")

\* The call could not get the API manager.
ManagerFailed(call) ==
  \/ IsStep(call, "start") /\ "credential_failed" \in call.notes
  \/ IsSubmit(call) /\ call.err \in CredentialErrors

\* C22 as stated: a call that needs the API manager gets one built with the
\* first token of the chain session, environment, configuration file, and
\* the lookup fails only when the three are absent.
C22_TokenPriority ==
  [][UsesManager(last')
     => IF IsSome(FirstAvailable)
        THEN ~ManagerFailed(last') /\ apiManager' = FirstAvailable
        ELSE ManagerFailed(last')]_vars

\* The working directory is a repository on a branch of the given names.
OnBranch(names) ==
  /\ workspace.exists /\ workspace.repo
  /\ IsSome(workspace.branch) /\ workspace.branch[1] \in names

\* The number of days of an age given in hours, a started day counting as a
\* whole one.
DaysOld(hours) ==
  CHOOSE d \in -2..60 : d * 24 >= hours /\ (d - 1) * 24 < hours

\* The basic_info step has returned with a success.
BasicInfoDone == IsStep(last, "basic_info") /\ last.ok

\* C23 as stated: on a feature branch whose merge-base is d days old the
\* estimate is min(max(d, 1), 30), in the response of the basic_info step and
\* in the result of GitUtils.getGitInfo.
C23_FeatureEstimate ==
  (OnBranch({"feat/a"}) /\ IsSome(workspace.mergeBase)) =>
    LET d == DaysOld(workspace.mergeBase[1])
        e == IF d < 1 THEN 1 ELSE IF d > 30 THEN 30 ELSE d
    IN  /\ BasicInfoDone => last.gitInfo.estimatedWorkDays = Some(e)
        /\ snapshot.done => snapshot.gitInfo.estimatedWorkDays = Some(e)

\* C24 as stated: on main or master the estimate shown by the basic_info step
\* is the number of days since the first commit; without a first commit it
\* is max(ceil(commits / 3), 3), and 7 when there is no commit in 30 days.
C24_MainLineEstimate ==
  (OnBranch({"main", "master"}) /\ BasicInfoDone /\ IsSome(workspace.commits)) =>
    LET n == workspace.commits[1]
        third == CHOOSE k \in 0..40 : k * 3 >= n /\ (k - 1) * 3 < n
    IN  last.gitInfo.estimatedWorkDays =
          Some(IF IsSome(workspace.firstCommit)
               THEN DaysOld(workspace.firstCommit[1])
               ELSE IF n = 0 THEN 7
               ELSE IF third > 3 THEN third ELSE 3)

\* C25: a basic_info step with a valid payload succeeds and stores the
\* payload whatever the working directory yields: outside a repository the
\* git information is empty; inside one, a branch command, a directory
\* lookup or a configuration read that fails leaves its own field out and
\* the others as they are, and the estimate is always given.
C25_GitNeverFails ==
  [][(/\ IsStep(last', "basic_info")
      /\ last'.data.json
      /\ HasBasicFields(last'.data.obj))
     => /\ last'.ok
        /\ sessionData'.basicInfo = Some(last'.data.obj)
        /\ IF ~workspace.exists \/ ~workspace.repo
           THEN last'.gitInfo = NoGitInfo
           ELSE /\ last'.gitInfo.currentBranch = workspace.branch
                /\ IsSome(last'.gitInfo.projectName) <=> workspace.pwd
                /\ IsSome(last'.gitInfo.projectUrl) <=> workspace.config = "json"
                /\ IsSome(last'.gitInfo.estimatedWorkDays)
                /\ ~IsSome(workspace.branch)
                   => last'.gitInfo.estimatedWorkDays = Some(DefaultWorkDays)]_vars

\* C25, its case: the step has succeeded in a directory that is missing or
\* is no repository, or in a repository whose branch command fails.
C25_Witness ==
  /\ BasicInfoDone
  /\ IsSome(sessionData.basicInfo)
  /\ ~workspace.repo
  /\ last.gitInfo = NoGitInfo

\* The recently used ids a project_info call has handed to the cache.
RecentIds(call) ==
  [participants |-> OrEmpty(call.data.obj.participants),
   reviewers |-> OrEmpty(call.data.obj.reviewers)]

C30_BasicInfoFrame ==
  [][(IsStep(last', "basic_info") /\ last'.ok)
     => (/\ sessionData'.projectInfo = sessionData.projectInfo
         /\ sessionData'.modules = sessionData.modules
         /\ sessionData' = [sessionData EXCEPT !.basicInfo = Some(last'.data.obj)]
         /\ workspace' = workspace)]_vars

\* C30, its case: the step has collected a git project name, a branch and an
\* estimate, and the Session holds the basic info and no project info.
C30_Witness ==
  /\ IsStep(last, "basic_info")
  /\ last.ok
  /\ IsSome(last.gitInfo.projectName)
  /\ IsSome(last.gitInfo.currentBranch)
  /\ IsSome(last.gitInfo.estimatedWorkDays)
  /\ IsSome(sessionData.basicInfo)
  /\ ~IsSome(sessionData.projectInfo)

\* The number of requests of the given operation in `sent`.
Times(sent, op) == Cardinality(Sent(sent, {op}))

\* C29: one call sends each request of the submitter at most once, whatever
\* the service answers, and a request that has failed is the last one of its
\* call; a step sends none, so that after a failure the service sees a new
\* request only with the next submit call, and the iterations it holds are
\* those the calls have reported.
C29_NoAutomaticRetry ==
  [][/\ \A op \in SubmitOps : Times(last'.sent, op) <= 1
     /\ \A i \in 1..Len(last'.sent) :
          (last'.sent[i].resp # "ok" /\ last'.sent[i].op # "getIterationDetail")
            => i = Len(last'.sent)
     /\ ~IsSubmit(last') => (last'.sent = <<>> /\ nextId' = nextId)
     /\ nextId' = nextId + Cardinality(Done(last'.sent, "createSprint"))
     /\ inflight' = None]_vars

\* C29, its case: a submit has failed on a transport error of the request of
\* the application, which it has sent once after the one creation of the
\* iteration.
C29_Witness ==
  /\ IsSubmit(last)
  /\ ~last.ok
  /\ last.err = "create_cr_failed"
  /\ Times(last.sent, "createSprint") = 1
  /\ Times(last.sent, "createCrRequest") = 1
  /\ \E i \in Failed(last.sent, "createCrRequest") : last.sent[i].resp = "http"

\* The last call was a modules step that returned a record, and the call
\* after it submits that record.
SubmitsAssembled(call, next) ==
  /\ IsStep(call, "modules")
  /\ IsSome(call.record)
  /\ IsSubmit(next)
  /\ next.iteration = AsIterationData(call.record[1])

\* C28 as stated: when the record the modules step has assembled is
\* submitted, the request of the CR application carries the participants of
\* the project_info payload joined with commas in their order, and its
\* reviewers joined the same way.
C28_IdListsReachRequest ==
  [][SubmitsAssembled(last, last')
     => \A i \in Sent(last'.sent, {"createCrRequest"}) :
          /\ IsSome(last'.sent[i].body)
          /\ last'.sent[i].body[1].participantIds
               = JoinIds(OrEmpty(sessionData.projectInfo[1].participants))
          /\ last'.sent[i].body[1].checkUserIds
               = JoinIds(OrEmpty(sessionData.projectInfo[1].reviewers))]_vars

\* The Session holds what the three storing steps leave.
SessionFull(s) ==
  IsSome(s.basicInfo) /\ IsSome(s.projectInfo) /\ IsSome(s.modules)

\* C31 as stated: a submit succeeds only when the Session holds the basic
\* info, the project info and the modules, that is when the three steps have
\* succeeded since the last start and the last successful submit.
C31_SubmitOnlyWhenReady ==
  [][(IsSubmit(last') /\ last'.ok) => SessionFull(sessionData)]_vars

\* min(max(d, 1), 30)
Clamped(d) == IF d < 1 THEN 1 ELSE IF d > 30 THEN 30 ELSE d

\* max(ceil(n / 3), 3)
ByCommits(n) ==
  LET third == CHOOSE k \in 0..40 : k * 3 >= n /\ (k - 1) * 3 < n
  IN  IF third > 3 THEN third ELSE 3

\* The estimate the cascade of a feature branch gives in the working
\* directory: the first of its strategies that succeeds, 7 when none does.
FeatureCascade ==
  IF IsSome(workspace.mergeBase) THEN Clamped(DaysOld(workspace.mergeBase[1]))
  ELSE IF IsSome(workspace.firstCommit)
  THEN Clamped(DaysOld(workspace.firstCommit[1]))
  ELSE IF IsSome(workspace.commits) THEN ByCommits(workspace.commits[1])
  ELSE 7

\* C32 as stated: on a feature branch the estimate is that of the first
\* strategy that succeeds (the merge-base age kept between 1 and 30, else the
\* first-commit age kept between 1 and 30, else max(ceil(commits / 3), 3),
\* else 7), in the response of the basic_info step and in the result of
\* GitUtils.getGitInfo.
C32_FeatureCascade ==
  OnBranch({"feat/a"}) =>
    /\ BasicInfoDone => last.gitInfo.estimatedWorkDays = Some(FeatureCascade)
    /\ snapshot.done => snapshot.gitInfo.estimatedWorkDays = Some(FeatureCascade)

\* The working directory is a git repository.
InRepository == workspace.exists /\ workspace.repo

\* The project name the priority chain gives in the working directory: that
\* of a configuration file, else that of the url of the remote, else that
\* made from the name of the directory.
ChainName ==
  IF workspace.config # "none" THEN Some(ConfigName)
  ELSE IF workspace.remote THEN Some(RemoteName)
  ELSE Some(DirectoryName)

\* C33 as stated: in a repository the project name shown after the basic_info
\* step is the one of the configuration file when there is one, else the last
\* segment of the url of the remote without ".git", else the name made from
\* the directory; GitUtils.getGitInfo gives the same name.
C33_ProjectNameChain ==
  InRepository =>
    /\ (BasicInfoDone /\ workspace.pwd) => last.gitInfo.projectName = ChainName
    /\ snapshot.done => snapshot.gitInfo.projectName = ChainName

\* The project the matching by name selects: the first of the list whose
\* name equals the text, contains it or is contained in it; 0 when none.
ByName(token, list) ==
  FirstMatch({k \in 1..Len(list) :
                \/ list[k].name = token
                \/ Includes(list[k].name, token)
                \/ Includes(token, list[k].name)})

\* C34 as stated: a project line that is not a positive integer from its
\* first to its last character (a text that begins with digits, zero, a
\* negative number) is resolved by its name only: it resolves to the project
\* the matching by name selects and fails when that selects none.
C34_WholeTokenNumeric ==
  (resolution.done /\ ~IsPositiveInteger(resolution.token)) =>
    LET k == ByName(resolution.token, resolution.list)
    IN  IF k > 0
        THEN resolution.ok /\ resolution.projectId = resolution.list[k].id
        ELSE ~resolution.ok /\ resolution.err = "name"

\* A submit call has ended with a result that carries both ids, or with an
\* error and no result.
OneOutcome(call) ==
  IF call.ok
  THEN /\ call.err = ""
       /\ IsSome(call.result)
       /\ call.result[1].iterationId # <<>>
       /\ call.result[1].crApplicationId # <<>>
  ELSE /\ call.err # ""
       /\ ~IsSome(call.result)

\* C35: when every remote call returns, a submit that awaits the submitter
\* comes to its end, and a submit that has ended has reported either the id
\* of the iteration together with the id of the CR application or an error
\* without any id.
C35_SubmitTerminates ==
  /\ IsSome(inflight) ~> ~IsSome(inflight)
  /\ [](IsSubmit(last) => OneOutcome(last))

\* C35, its case: a submit that had awaited its four requests has ended with
\* both ids.
C35_Witness ==
  /\ ~IsSome(inflight)
  /\ IsSubmit(last)
  /\ last.ok
  /\ Len(last.sent) = 4
  /\ OneOutcome(last)

\* C36: a modules step that fails because the Session lacks the basic
\* information or the project information leaves the Session, its modules
\* included, as it was before the call.
C36_IncompleteModulesFrame ==
  [][(IsStep(last', "modules") /\ last'.err = "incomplete_session")
       => sessionData' = sessionData]_vars

\* C37: a submit that fails, for whatever reason, leaves the Session as it
\* was before the call; a submit changes the Session only when it succeeds.
C37_FailedSubmitFrame ==
  [][/\ (IsSubmit(last') /\ ~last'.ok) => sessionData' = sessionData
     /\ (IsSubmit(last') /\ sessionData' # sessionData) => last'.ok]_vars

\* C37, its case: a submit has failed at the creation of the CR application,
\* after the iteration had been created, and the Session still holds the
\* basic information and the project information.
C37_Witness ==
  /\ IsSubmit(last)
  /\ ~last.ok
  /\ last.err = "create_cr_failed"
  /\ IsSome(sessionData.basicInfo)
  /\ IsSome(sessionData.projectInfo)

\* C38: whenever a session token is set and an API manager is cached, the
\* manager holds that session token, and a call that gets the API manager
\* while a session token is set works with a manager that holds it, not the
\* token of the environment, of the configuration file or of an earlier login.
C38_ManagerHoldsSessionToken ==
  /\ []((IsSome(sessionToken) /\ IsSome(apiManager)) => apiManager = sessionToken)
  /\ [][(UsesManager(last') /\ ~ManagerFailed(last') /\ IsSome(sessionToken))
          => apiManager' = sessionToken']_vars

\* C38, its case: after a login that yielded the second token, a submit has
\* got a manager while the configuration file holds a token of its own.
C38_Witness ==
  /\ sessionToken = Some("T2")
  /\ ConfigTokenSet
  /\ IsSubmit(last)
  /\ ~ManagerFailed(last)
  /\ apiManager = Some("T2")

\* The submit in flight was called right after a modules step had assembled
\* its record from a full Session; the Session has since been cleared by a
\* start step, and the last call that has returned is a basic_info or a
\* project_info step of the new flow that has stored its data.
NewFlowStored(f) ==
  /\ IsStep(f.before, "modules") /\ f.before.ok
  /\ ~IsSome(sessionData.modules)
  /\ last.tool = "create_iteration"
  /\ last.step \in {"basic_info", "project_info"}
  /\ last.ok
  /\ IsSome(sessionData.basicInfo)

\* C39 as stated: when a submit that was in flight completes after a start
\* step and a successful basic_info or project_info step of a new flow, the
\* data those steps have stored is still in the Session.
C39_CompletionKeepsNewFlow ==
  [][(IsSome(inflight) /\ ~IsSome(inflight') /\ NewFlowStored(inflight[1]))
       => /\ sessionData'.basicInfo = sessionData.basicInfo
          /\ sessionData'.projectInfo = sessionData.projectInfo]_vars

\* The last call that has returned is one of updateRecentPersonnel.
IsPersonnel(call) == call.tool = "updateRecentPersonnel"

\* The sequence p is the beginning of the sequence s.
IsPrefix(p, s) == Len(p) <= Len(s) /\ SubSeq(s, 1, Len(p)) = p

\* No id stands twice in the sequence.
NoDuplicates(s) == \A i, j \in 1..Len(s) : s[i] = s[j] => i = j

\* C40 as stated: each of the two lists of recent ids has at most 5 entries
\* and begins with the ids of the last updateRecentPersonnel call in the
\* order given; a call with duplicate-free lists keeps duplicate-free lists
\* duplicate-free; a second call with the same arguments changes nothing.
C40_RecentLists ==
  /\ [](/\ Len(cache.recentParticipants) <= RecentLimit
        /\ Len(cache.recentReviewers) <= RecentLimit
        /\ IsPersonnel(last) =>
             /\ IsPrefix(last.data.obj.participantIds, cache.recentParticipants)
             /\ IsPrefix(last.data.obj.checkUserIds, cache.recentReviewers))
  /\ [][/\ (/\ IsPersonnel(last')
            /\ NoDuplicates(cache.recentParticipants)
            /\ NoDuplicates(cache.recentReviewers)
            /\ NoDuplicates(last'.data.obj.participantIds)
            /\ NoDuplicates(last'.data.obj.checkUserIds))
           => /\ NoDuplicates(cache'.recentParticipants)
              /\ NoDuplicates(cache'.recentReviewers)
        /\ (IsPersonnel(last) /\ IsPersonnel(last') /\ last'.data = last.data)
           => cache' = cache]_vars

\* The call has written the cache file.
Saved(call) == "save_failed" \notin call.notes

\* C40, amended: each of the two lists has at most 5 entries; after a call
\* that has written the cache file each list begins with the first 5 ids of
\* the call in the order given, and a call that could not write the file
\* leaves the lists as they were; a call with duplicate-free lists keeps
\* duplicate-free lists duplicate-free; after a call that has written the
\* file, a second call with the same arguments changes nothing.
C40_RecentListsTruncated ==
  /\ [](/\ Len(cache.recentParticipants) <= RecentLimit
        /\ Len(cache.recentReviewers) <= RecentLimit
        /\ (IsPersonnel(last) /\ Saved(last)) =>
             /\ IsPrefix(Slice(last.data.obj.participantIds, RecentLimit),
                         cache.recentParticipants)
             /\ IsPrefix(Slice(last.data.obj.checkUserIds, RecentLimit),
                         cache.recentReviewers))
  /\ [][/\ (IsPersonnel(last') /\ ~Saved(last')) => cache' = cache
        /\ (/\ IsPersonnel(last')
            /\ NoDuplicates(cache.recentParticipants)
            /\ NoDuplicates(cache.recentReviewers)
            /\ NoDuplicates(last'.data.obj.participantIds)
            /\ NoDuplicates(last'.data.obj.checkUserIds))
           => /\ NoDuplicates(cache'.recentParticipants)
              /\ NoDuplicates(cache'.recentReviewers)
        /\ (/\ IsPersonnel(last) /\ Saved(last)
            /\ IsPersonnel(last') /\ last'.data = last.data)
           => cache' = cache]_vars

\* C40, its case: a call with six participant ids has been written, and the
\* list of participants holds the first five of them.
C40_Witness ==
  /\ IsPersonnel(last)
  /\ Saved(last)
  /\ Len(last.data.obj.participantIds) > RecentLimit
  /\ cache.recentParticipants = <<1, 2, 3, 4, 5>>
  /\ cache.recentReviewers = <<8, 2>>

====
